---- MODULE Spec2Model ----
(***************************************************************************)
(* Study Planner: the scheduling engine (src/lib/scheduler.ts) and the     *)
(* regeneration sequence of the store around it.                           *)
(*                                                                         *)
(* Instants are integer minutes counted from the local midnight of the day *)
(* on which generation is invoked (day index 0), so startOfDay(now) = 0    *)
(* and the start of day d is d * 1440.  estimated_hours is carried in      *)
(* quarter hours (field estimated_hours4 = 4 * estimated_hours).           *)
(***************************************************************************)
EXTENDS Integers, Sequences, FiniteSets, TLC

\* ------------------------------------------------------------------------
\* Bounds of the model
\* ------------------------------------------------------------------------
MaxTasks == 2
MaxFixedEvents == 1
MaxStoredBlocks == 1

MinutesPerDay == 1440

\* ------------------------------------------------------------------------
\* Program constants
\* ------------------------------------------------------------------------
MIN_SPACING_DAYS == 1
MAX_DAILY_TOTAL_STUDY == 360
\* DAILY_SATURATION_THRESHOLD = 0.75 = 3/4
SaturationThresholdNum == 3
SaturationThresholdDen == 4
PREFERRED_SESSION_DURATIONS == <<120, 90, 60, 45, 30>>
avgSessionMinutes == 60
minHorizonDays == 30
maxHorizonDays == 120
MaxRoundsInit == 200
MaxRoundsWithoutPlacement == 10

DEFAULT_SCHEDULER_CONFIG ==
    [ dailyWorkHours |-> [ d \in 0..6 |->
          IF d \in {0, 6} THEN [start |-> 10, end |-> 18]
                          ELSE [start |-> 8, end |-> 22] ],
      minBlockMinutes |-> 30,
      maxBlockMinutes |-> 120,
      breakBetweenBlocks |-> 15,
      maxDailyMinutesPerTask |-> 120 ]

\* A caller-supplied config as in the tests: weekdays only, short sessions,
\* no break, minimum below the smallest preferred duration.
CustomConfig ==
    [ dailyWorkHours |-> [ d \in 1..5 |-> [start |-> 9, end |-> 17] ],
      minBlockMinutes |-> 15,
      maxBlockMinutes |-> 50,
      breakBetweenBlocks |-> 0,
      maxDailyMinutesPerTask |-> 100 ]

\* A caller-supplied config that spreads a task thinly: the per-task daily
\* cap is below the longest session.
SpreadConfig ==
    [ dailyWorkHours |-> [ d \in 0..6 |->
          IF d \in {0, 6} THEN [start |-> 10, end |-> 18]
                          ELSE [start |-> 8, end |-> 22] ],
      minBlockMinutes |-> 30,
      maxBlockMinutes |-> 120,
      breakBetweenBlocks |-> 15,
      maxDailyMinutesPerTask |-> 50 ]

\* Configs the type SchedulerConfig admits although they make no sense: a
\* minimum session above the maximum, a working window that ends before it
\* starts.
MalformedConfigs ==
    { [DEFAULT_SCHEDULER_CONFIG EXCEPT !.minBlockMinutes = 120,
                                       !.maxBlockMinutes = 60],
      [CustomConfig EXCEPT !.minBlockMinutes = 60, !.maxBlockMinutes = 45],
      [DEFAULT_SCHEDULER_CONFIG EXCEPT
           !.dailyWorkHours = [ d \in 0..6 |-> [start |-> 22, end |-> 8] ]] }

\* ------------------------------------------------------------------------
\* Arithmetic helpers (Math.min / Math.max / date-fns)
\* ------------------------------------------------------------------------
Min2(a, b) == IF a <= b THEN a ELSE b
Max2(a, b) == IF a >= b THEN a ELSE b

\* differenceInDays: number of full days between two instants, truncated
\* towards zero.
differenceInDays(later, earlier) ==
    IF later >= earlier THEN (later - earlier) \div MinutesPerDay
                        ELSE 0 - ((earlier - later) \div MinutesPerDay)

differenceInMinutes(later, earlier) == later - earlier

\* Math.ceil(n / d) for n >= 0, d > 0
CeilDiv(n, d) == (n + d - 1) \div d

RECURSIVE SumSeq(_)
SumSeq(s) == IF s = <<>> THEN 0 ELSE Head(s) + SumSeq(Tail(s))

SeqToSet(s) == { s[i] : i \in 1..Len(s) }

\* ------------------------------------------------------------------------
\* doTimeRangesOverlap: areIntervalsOverlapping, endpoints exclusive
\* ------------------------------------------------------------------------
doTimeRangesOverlap_Inclusive(start1, end1, start2, end2) ==
    start1 <= end2 /\ start2 <= end1

doTimeRangesOverlap(start1, end1, start2, end2) ==
    start1 < end2 /\ start2 < end1

\* ------------------------------------------------------------------------
\* getBlockedRanges: fixed events then locked blocks, stably sorted by start
\* ------------------------------------------------------------------------
RECURSIVE InsertByStart(_, _)
InsertByStart(sorted, r) ==
    IF sorted = <<>> THEN <<r>>
    ELSE IF Head(sorted).start <= r.start
         THEN <<Head(sorted)>> \o InsertByStart(Tail(sorted), r)
         ELSE <<r>> \o sorted

RECURSIVE SortByStart(_)
SortByStart(s) ==
    IF s = <<>> THEN <<>>
    ELSE InsertByStart(SortByStart(SubSeq(s, 1, Len(s) - 1)), s[Len(s)])

getBlockedRanges(events, locked) ==
    SortByStart(
        [ i \in 1..Len(events) |->
            [start |-> events[i].start_at, end |-> events[i].end_at] ]
        \o
        [ i \in 1..Len(locked) |->
            [start |-> locked[i].start_at, end |-> locked[i].end_at] ])

\* ------------------------------------------------------------------------
\* getWorkingSlots: the work window of a day, or none
\* ------------------------------------------------------------------------
NoSlot == [start |-> 0, end |-> 0, none |-> TRUE]

\* getDay(day) for the day with the given index; weekdayOfToday is getDay of
\* day 0 (0 = Sunday .. 6 = Saturday)
getDay(dayIndex, weekdayOfToday) == (weekdayOfToday + dayIndex) % 7

\* variant: a weekday without a configured window falls back to 8:00-22:00
getWorkingSlots_FallbackWindow(dayIndex, weekdayOfToday, cfg) ==
    LET dayOfWeek == getDay(dayIndex, weekdayOfToday)
        dayStart  == dayIndex * MinutesPerDay
    IN IF dayOfWeek \notin DOMAIN cfg.dailyWorkHours
       THEN [start |-> dayStart + 8 * 60, end |-> dayStart + 22 * 60,
             none |-> FALSE]
       ELSE [start |-> dayStart + cfg.dailyWorkHours[dayOfWeek].start * 60,
             end   |-> dayStart + cfg.dailyWorkHours[dayOfWeek].end * 60,
             none  |-> FALSE]

getWorkingSlots(dayIndex, weekdayOfToday, cfg) ==
    LET dayOfWeek == getDay(dayIndex, weekdayOfToday)
        dayStart  == dayIndex * MinutesPerDay
    IN IF dayOfWeek \notin DOMAIN cfg.dailyWorkHours
       THEN NoSlot
       ELSE [start |-> dayStart + cfg.dailyWorkHours[dayOfWeek].start * 60,
             end   |-> dayStart + cfg.dailyWorkHours[dayOfWeek].end * 60,
             none  |-> FALSE]

\* ------------------------------------------------------------------------
\* findFreeSlots
\* ------------------------------------------------------------------------
\* The walk over the blocked ranges of the day: returns the slots emitted
\* and the final cursor.
\* variant: the cursor is not moved past the blocked range
RECURSIVE WalkBlocked_NoAdvance(_, _, _, _)
WalkBlocked_NoAdvance(ranges, currentStart, workEnd, acc) ==
    IF ranges = <<>> THEN [slots |-> acc, cursor |-> currentStart]
    ELSE LET blocked == Head(ranges)
             freeEnd == IF blocked.start < workEnd THEN blocked.start
                                                  ELSE workEnd
             acc2    == IF blocked.start > currentStart /\ freeEnd > currentStart
                        THEN Append(acc, [start |-> currentStart, end |-> freeEnd])
                        ELSE acc
         IN WalkBlocked_NoAdvance(Tail(ranges), currentStart, workEnd, acc2)

RECURSIVE WalkBlocked(_, _, _, _)
WalkBlocked(ranges, currentStart, workEnd, acc) ==
    IF ranges = <<>> THEN [slots |-> acc, cursor |-> currentStart]
    ELSE LET blocked == Head(ranges)
             freeEnd == IF blocked.start < workEnd THEN blocked.start
                                                  ELSE workEnd
             acc2    == IF blocked.start > currentStart /\ freeEnd > currentStart
                        THEN Append(acc, [start |-> currentStart, end |-> freeEnd])
                        ELSE acc
             next    == IF blocked.end > currentStart THEN blocked.end
                                                      ELSE currentStart
         IN WalkBlocked(Tail(ranges), next, workEnd, acc2)

findFreeSlots(dayIndex, weekdayOfToday, blockedRanges, cfg) ==
    LET workingHours == getWorkingSlots(dayIndex, weekdayOfToday, cfg)
    IN IF workingHours.none THEN <<>>
       ELSE
         LET dayBlockedRanges ==
                 SelectSeq(blockedRanges,
                     LAMBDA r : doTimeRangesOverlap(workingHours.start,
                                    workingHours.end, r.start, r.end))
             w == WalkBlocked(dayBlockedRanges, workingHours.start,
                              workingHours.end, <<>>)
             all == IF w.cursor < workingHours.end
                    THEN Append(w.slots, [start |-> w.cursor,
                                          end |-> workingHours.end])
                    ELSE w.slots
         IN SelectSeq(all, LAMBDA slot :
                differenceInMinutes(slot.end, slot.start) >= cfg.minBlockMinutes)

\* ------------------------------------------------------------------------
\* calculatePriorityScore
\*   score = (importance * 1.5 + difficulty) / (max(slackDays, 0) + 1e-6)
\*           * (1 / estimated_hours)
\* The score is a real number; the model keeps its exact rational
\* ingredients and compares two scores by cross-multiplication.
\*   weighted2 = 2 * weightedScore, slack = max(slack, 0) in minutes,
\*   hours4 = 4 * estimated_hours (0 stands for lengthFactor = 1)
\* ------------------------------------------------------------------------
EstimatedMinutes(task) == (task.estimated_hours4 * 60) \div 4

calculatePriorityScore_DifficultyFirst(task, nowAt) ==
    LET estimatedMinutes     == EstimatedMinutes(task)
        minutesUntilDeadline == Max2(0, differenceInMinutes(task.deadline, nowAt))
        slack                == minutesUntilDeadline - estimatedMinutes
    IN [ weighted2 |-> 2 * task.importance + 3 * task.difficulty,
         slack     |-> Max2(slack, 0),
         hours4    |-> IF task.estimated_hours4 > 0 THEN task.estimated_hours4
                                                    ELSE 4 ]

calculatePriorityScore(task, nowAt) ==
    LET estimatedMinutes     == EstimatedMinutes(task)
        minutesUntilDeadline == Max2(0, differenceInMinutes(task.deadline, nowAt))
        slack                == minutesUntilDeadline - estimatedMinutes
    IN [ weighted2 |-> 3 * task.importance + 2 * task.difficulty,
         slack     |-> Max2(slack, 0),
         hours4    |-> IF task.estimated_hours4 > 0 THEN task.estimated_hours4
                                                    ELSE 4 ]

\* a > b for two scores.  With epsilon = 1e-6 day = 9/6250 minute:
\*   a > b  <=>  A*(sb + eps) > B*(sa + eps)   where A = wa*hb, B = wb*ha
\*          <=>  6250 * (A*sb - B*sa) > 9 * (B - A)
ScoreGreater_Reversed(a, b) ==
    LET A == b.weighted2 * a.hours4
        B == a.weighted2 * b.hours4
        D == A * a.slack - B * b.slack
    IN IF D >= 2 THEN TRUE
       ELSE IF D <= -2 THEN FALSE
       ELSE 6250 * D > 9 * (B - A)

ScoreGreater(a, b) ==
    LET A == a.weighted2 * b.hours4
        B == b.weighted2 * a.hours4
        D == A * b.slack - B * a.slack
    IN IF D >= 2 THEN TRUE
       ELSE IF D <= -2 THEN FALSE
       ELSE 6250 * D > 9 * (B - A)

\* ------------------------------------------------------------------------
\* calculateTaskSchedulingPlan
\* ------------------------------------------------------------------------
calculateTaskSchedulingPlan(task, nowAt) ==
    LET totalMinutes      == EstimatedMinutes(task)
        daysUntilDeadline == Max2(1, differenceInDays(task.deadline, nowAt))
        targetSessions    == CeilDiv(totalMinutes, avgSessionMinutes)
    IN [ targetSessions    |-> targetSessions,
         targetSpacingDays |-> IF targetSessions > 1
                               THEN Max2(1, daysUntilDeadline \div targetSessions)
                               ELSE 0,
         remainingMinutes  |-> totalMinutes ]

\* ------------------------------------------------------------------------
\* buildDailySlotInventory and its accessors
\* ------------------------------------------------------------------------
buildDailySlotInventory(numDays, weekdayOfToday, blockedRanges, cfg) ==
    [ dayIndex \in 0..(numDays - 1) |->
        LET freeSlots == findFreeSlots(dayIndex, weekdayOfToday, blockedRanges, cfg)
        IN [ date     |-> dayIndex * MinutesPerDay,
             dayIndex |-> dayIndex,
             freeSlots |-> freeSlots,
             totalAvailableMinutes |->
                 SumSeq([ i \in 1..Len(freeSlots) |->
                     differenceInMinutes(freeSlots[i].end, freeSlots[i].start) ]),
             usedStudyMinutes |-> 0,
             saturation |-> [num |-> 0, den |-> 1] ] ]

getDayAvailableMinutes(dayInventory) ==
    Max2(0, dayInventory.totalAvailableMinutes - dayInventory.usedStudyMinutes)

\* updateDaySaturation: the new value of the saturation field
updateDaySaturation(dayInventory) ==
    IF dayInventory.totalAvailableMinutes = 0
    THEN [num |-> 1, den |-> 1]
    ELSE [num |-> dayInventory.usedStudyMinutes,
          den |-> dayInventory.totalAvailableMinutes]

SaturationBelowThreshold(sat) ==
    sat.num * SaturationThresholdDen < SaturationThresholdNum * sat.den

\* ------------------------------------------------------------------------
\* Per-day, per-task usage map (Map<number, DailyTaskUsage>)
\* ------------------------------------------------------------------------
TaskMinutesUsed(usage, dayIndex, taskId) ==
    IF dayIndex \in DOMAIN usage
    THEN IF taskId \in DOMAIN usage[dayIndex] THEN usage[dayIndex][taskId] ELSE 0
    ELSE 0

\* variant: the session's minutes are not recorded
AddTaskUsage_Forgets(usage, dayIndex, taskId, minutes) == usage

\* dailyTaskUsage.get(dayIndex).set(taskId, previous + minutes)
AddTaskUsage(usage, dayIndex, taskId, minutes) ==
    LET old == IF dayIndex \in DOMAIN usage THEN usage[dayIndex] ELSE <<>>
        new == [ t \in (DOMAIN old) \cup {taskId} |->
                   IF t = taskId
                   THEN (IF t \in DOMAIN old THEN old[t] ELSE 0) + minutes
                   ELSE old[t] ]
    IN [ d \in (DOMAIN usage) \cup {dayIndex} |->
           IF d = dayIndex THEN new ELSE usage[d] ]

\* ------------------------------------------------------------------------
\* findNextSuitableDay
\* ------------------------------------------------------------------------
NoDate == -1
NoDay == -1

\* the checks shared by both passes of findNextSuitableDay
DayPassesChecks_NoSpacing(taskContext, dayInventory, usage, cfg) ==
    /\ ~ (dayInventory.date > taskContext.task.deadline)
    /\ getDayAvailableMinutes(dayInventory) >= cfg.minBlockMinutes
    /\ dayInventory.usedStudyMinutes < MAX_DAILY_TOTAL_STUDY
    /\ TaskMinutesUsed(usage, dayInventory.dayIndex, taskContext.task.id)
           < cfg.maxDailyMinutesPerTask

DayPassesChecks(taskContext, dayInventory, usage, cfg) ==
    /\ ~ (dayInventory.date > taskContext.task.deadline)
    /\ \/ taskContext.lastSessionDate = NoDate
       \/ differenceInDays(dayInventory.date, taskContext.lastSessionDate)
              >= MIN_SPACING_DAYS
    /\ getDayAvailableMinutes(dayInventory) >= cfg.minBlockMinutes
    /\ dayInventory.usedStudyMinutes < MAX_DAILY_TOTAL_STUDY
    /\ TaskMinutesUsed(usage, dayInventory.dayIndex, taskContext.task.id)
           < cfg.maxDailyMinutesPerTask

MinOfSet(S) == CHOOSE x \in S : \A y \in S : x <= y

findNextSuitableDay_NoPreference(taskContext, inv, usage, startDayIndex, cfg) ==
    LET size  == Cardinality(DOMAIN inv)
        range == { d \in DOMAIN inv : d >= startDayIndex /\ d < size }
        relaxed == { d \in range : DayPassesChecks(taskContext, inv[d], usage, cfg) }
    IN IF relaxed # {} THEN MinOfSet(relaxed) ELSE NoDay

findNextSuitableDay(taskContext, inv, usage, startDayIndex, cfg) ==
    LET size  == Cardinality(DOMAIN inv)
        range == { d \in DOMAIN inv : d >= startDayIndex /\ d < size }
        ideal == { d \in range :
                     /\ DayPassesChecks(taskContext, inv[d], usage, cfg)
                     /\ SaturationBelowThreshold(inv[d].saturation) }
        relaxed == { d \in range : DayPassesChecks(taskContext, inv[d], usage, cfg) }
    IN IF ideal # {} THEN MinOfSet(ideal)
       ELSE IF relaxed # {} THEN MinOfSet(relaxed)
       ELSE NoDay

\* ------------------------------------------------------------------------
\* calculateOptimalSessionDuration
\* ------------------------------------------------------------------------
RECURSIVE FirstPreferred(_, _, _)
FirstPreferred(durations, maxPossible, minBlock) ==
    IF durations = <<>> THEN 0
    ELSE IF Head(durations) <= maxPossible /\ Head(durations) >= minBlock
         THEN Head(durations)
         ELSE FirstPreferred(Tail(durations), maxPossible, minBlock)

calculateOptimalSessionDuration_NoAllowances(taskContext, dayInventory, usage, cfg) ==
    LET dayAvailable    == getDayAvailableMinutes(dayInventory)
        maxPossible == Min2(taskContext.remainingMinutes,
                         Min2(dayAvailable, cfg.maxBlockMinutes))
        preferred == FirstPreferred(PREFERRED_SESSION_DURATIONS, maxPossible,
                                    cfg.minBlockMinutes)
    IN IF maxPossible < cfg.minBlockMinutes THEN 0
       ELSE IF preferred > 0 THEN preferred
       ELSE IF maxPossible >= cfg.minBlockMinutes THEN maxPossible ELSE 0

calculateOptimalSessionDuration(taskContext, dayInventory, usage, cfg) ==
    LET taskMinutesUsed == TaskMinutesUsed(usage, dayInventory.dayIndex,
                                           taskContext.task.id)
        dailyAllowance  == cfg.maxDailyMinutesPerTask - taskMinutesUsed
        dayAvailable    == getDayAvailableMinutes(dayInventory)
        totalStudyAllowance == MAX_DAILY_TOTAL_STUDY - dayInventory.usedStudyMinutes
        maxPossible == Min2(taskContext.remainingMinutes,
                         Min2(dailyAllowance,
                           Min2(dayAvailable,
                             Min2(totalStudyAllowance, cfg.maxBlockMinutes))))
        preferred == FirstPreferred(PREFERRED_SESSION_DURATIONS, maxPossible,
                                    cfg.minBlockMinutes)
    IN IF maxPossible < cfg.minBlockMinutes THEN 0
       ELSE IF preferred > 0 THEN preferred
       ELSE IF maxPossible >= cfg.minBlockMinutes THEN maxPossible ELSE 0

\* ------------------------------------------------------------------------
\* scheduleTasksRoundRobin: construction of the task contexts
\* ------------------------------------------------------------------------
MakeContext(task, nowAt) ==
    LET plan == calculateTaskSchedulingPlan(task, nowAt)
    IN [ task              |-> task,
         remainingMinutes  |-> plan.remainingMinutes,
         targetSessions    |-> plan.targetSessions,
         targetSpacingDays |-> plan.targetSpacingDays,
         lastSessionDate   |-> NoDate,
         scheduledSessions |-> 0,
         priority          |-> calculatePriorityScore(task, nowAt) ]

\* stable sort, descending priority: sort((a, b) => b.priority - a.priority)
RECURSIVE InsertByPriority(_, _)
InsertByPriority(sorted, c) ==
    IF sorted = <<>> THEN <<c>>
    ELSE IF ScoreGreater(c.priority, Head(sorted).priority)
         THEN <<c>> \o sorted
         ELSE <<Head(sorted)>> \o InsertByPriority(Tail(sorted), c)

RECURSIVE SortByPriority(_)
SortByPriority(s) ==
    IF s = <<>> THEN <<>>
    ELSE InsertByPriority(SortByPriority(SubSeq(s, 1, Len(s) - 1)), s[Len(s)])

InitialContexts(taskList, nowAt) ==
    SortByPriority([ i \in 1..Len(taskList) |-> MakeContext(taskList[i], nowAt) ])

\* variant: the slot is left as it was after a placement
ShrinkSlot_Unchanged(freeSlots, slotIndex, nextStart) == freeSlots

\* suitableSlot.start = nextStart: the slot is shrunk in place
ShrinkSlot(freeSlots, slotIndex, nextStart) ==
    [freeSlots EXCEPT ![slotIndex].start = nextStart]

\* index of the first free slot long enough, 0 when there is none
FindSuitableSlot_TooShort(freeSlots, sessionDuration) ==
    LET fits == { i \in 1..Len(freeSlots) :
                    differenceInMinutes(freeSlots[i].end, freeSlots[i].start)
                        < sessionDuration }
    IN IF fits = {} THEN 0 ELSE MinOfSet(fits)

FindSuitableSlot(freeSlots, sessionDuration) ==
    LET fits == { i \in 1..Len(freeSlots) :
                    differenceInMinutes(freeSlots[i].end, freeSlots[i].start)
                        >= sessionDuration }
    IN IF fits = {} THEN 0 ELSE MinOfSet(fits)

\* ------------------------------------------------------------------------
\* generateScheduleBlocks: eligibility filter and horizon
\* ------------------------------------------------------------------------
\* variant: the deadline is not compared with now
IsSchedulable_NoDeadlineCheck(task, nowAt) ==
    task.estimated_hours4 > 0

IsSchedulable(task, nowAt) ==
    task.deadline > nowAt /\ task.estimated_hours4 > 0

TasksToSchedule(taskList, nowAt) ==
    SelectSeq(taskList, LAMBDA t : IsSchedulable(t, nowAt))

RECURSIVE FurthestDeadline(_, _)
FurthestDeadline(taskList, max) ==
    IF taskList = <<>> THEN max
    ELSE FurthestDeadline(Tail(taskList),
            IF Head(taskList).deadline > max THEN Head(taskList).deadline ELSE max)

HorizonDays(taskList, nowAt) ==
    Min2(maxHorizonDays,
         Max2(minHorizonDays,
              differenceInDays(FurthestDeadline(taskList, nowAt), nowAt) + 1))

\* variant: the warning reports the whole effort instead of the remainder
MakeWarning_WholeEffort(taskContext) ==
    [ taskId |-> taskContext.task.id,
      messageTenths |-> (taskContext.remainingMinutes + 3) \div 6,
      messageDeadline |-> taskContext.task.deadline,
      unscheduledHours |-> [num |-> EstimatedMinutes(taskContext.task), den |-> 60] ]

\* warnings for unscheduled work; unscheduledHours = remainingMinutes / 60 is
\* kept as the fraction num/den, messageTenths is
\* Math.round(remainingMinutes / 60 * 10) (tenths of an hour in the message)
MakeWarning(taskContext) ==
    [ taskId |-> taskContext.task.id,
      messageTenths |-> (taskContext.remainingMinutes + 3) \div 6,
      messageDeadline |-> taskContext.task.deadline,
      unscheduledHours |-> [num |-> taskContext.remainingMinutes, den |-> 60] ]

GenerateWarnings(contexts) ==
    LET unfinished == SelectSeq(contexts, LAMBDA c : c.remainingMinutes > 0)
    IN [ i \in 1..Len(unfinished) |-> MakeWarning(unfinished[i]) ]

\* variant: the placed blocks are dropped when a warning exists
MakeResult_RollsBack(contexts, blocks) ==
    LET warnings == GenerateWarnings(contexts)
    IN [ returned |-> TRUE,
         success |-> (Len(warnings) = 0),
         createdBlocks |-> IF Len(warnings) = 0 THEN blocks ELSE <<>>,
         warnings |-> warnings ]

\* the SchedulerResult built at the end of generateScheduleBlocks
MakeResult(contexts, blocks) ==
    LET warnings == GenerateWarnings(contexts)
    IN [ returned |-> TRUE,
         success |-> (Len(warnings) = 0),
         createdBlocks |-> blocks,
         warnings |-> warnings ]

\* ------------------------------------------------------------------------
\* checkCollision
\* ------------------------------------------------------------------------
\* index of the first entry of the list that overlaps the candidate and is
\* not skipped, 0 when there is none (the for loops return at the first hit)
RECURSIVE FirstConflict_IgnoresSkip(_, _, _, _, _)
FirstConflict_IgnoresSkip(list, i, newStart, newEnd, skipId) ==
    IF i > Len(list) THEN 0
    ELSE IF doTimeRangesOverlap(newStart, newEnd, list[i].start_at, list[i].end_at)
         THEN i
         ELSE FirstConflict_IgnoresSkip(list, i + 1, newStart, newEnd, skipId)

RECURSIVE FirstConflict(_, _, _, _, _)
FirstConflict(list, i, newStart, newEnd, skipId) ==
    IF i > Len(list) THEN 0
    ELSE IF list[i].id = skipId
         THEN FirstConflict(list, i + 1, newStart, newEnd, skipId)
         ELSE IF doTimeRangesOverlap(newStart, newEnd,
                                     list[i].start_at, list[i].end_at)
              THEN i
              ELSE FirstConflict(list, i + 1, newStart, newEnd, skipId)

\* an id no entity has: excludeBlockId left undefined, or no id to skip
NoId == 0

checkCollision_BlocksFirst(newStart, newEnd, events, locked, excludeBlockId) ==
    LET e == FirstConflict(events, 1, newStart, newEnd, NoId)
        b == FirstConflict(locked, 1, newStart, newEnd, excludeBlockId)
    IN IF b # 0
       THEN [ hasCollision |-> TRUE, type |-> "locked_block",
              message |-> <<"Conflit avec le bloc verrouille", locked[b].title>> ]
       ELSE IF e # 0
            THEN [ hasCollision |-> TRUE, type |-> "fixed_event",
                   message |-> <<"Conflit avec l'evenement fixe", events[e].title>> ]
            ELSE [ hasCollision |-> FALSE ]

checkCollision(newStart, newEnd, events, locked, excludeBlockId) ==
    LET e == FirstConflict(events, 1, newStart, newEnd, NoId)
        b == FirstConflict(locked, 1, newStart, newEnd, excludeBlockId)
    IN IF e # 0
       THEN [ hasCollision |-> TRUE, type |-> "fixed_event",
              message |-> <<"Conflit avec l'evenement fixe", events[e].title>> ]
       ELSE IF b # 0
            THEN [ hasCollision |-> TRUE, type |-> "locked_block",
                   message |-> <<"Conflit avec le bloc verrouille", locked[b].title>> ]
            ELSE [ hasCollision |-> FALSE ]

\* ------------------------------------------------------------------------
\* Inputs the model draws from
\* ------------------------------------------------------------------------
NowChoices == {570, 780}
WeekdayChoices == {1, 6}

\* tasks offered to the scheduler (ids are given by position in the list)
TaskChoices ==
    { [deadline |-> 6480, estimated_hours4 |-> 12, difficulty |-> 3, importance |-> 3],
      [deadline |-> 6480, estimated_hours4 |-> 5,  difficulty |-> 1, importance |-> 5],
      [deadline |-> 1860, estimated_hours4 |-> 12, difficulty |-> 3, importance |-> 3],
      [deadline |-> 600,  estimated_hours4 |-> 4,  difficulty |-> 3, importance |-> 1],
      [deadline |-> 6480, estimated_hours4 |-> 0,  difficulty |-> 3, importance |-> 3] }

FixedEventChoices ==
    { [id |-> 1, start_at |-> 480, end_at |-> 1320],
      [id |-> 2, start_at |-> 540, end_at |-> 600] }

\* schedule_blocks rows that may already be persisted
StoredBlockChoices ==
    { [id |-> 1, task_id |-> 1, start_at |-> 840,  end_at |-> 960,
       duration_minutes |-> 120, is_locked |-> TRUE],
      [id |-> 2, task_id |-> 1, start_at |-> 480,  end_at |-> 600,
       duration_minutes |-> 120, is_locked |-> FALSE],
      [id |-> 3, task_id |-> 2, start_at |-> 1920, end_at |-> 2040,
       duration_minutes |-> 120, is_locked |-> FALSE] }

FirstFreshId == Cardinality(StoredBlockChoices) + 1

\* the config a caller other than the store passes explicitly
CallerConfigs == {CustomConfig}

SubsetsUpTo(S, n) == { T \in SUBSET S : Cardinality(T) <= n }

\* a set of rows as a list, ascending by (start_at, id)
RECURSIVE OrderByStart(_)
OrderByStart(S) ==
    IF S = {} THEN <<>>
    ELSE LET first == CHOOSE x \in S : \A y \in S :
                          \/ x.start_at < y.start_at
                          \/ (x.start_at = y.start_at /\ x.id <= y.id)
         IN <<first>> \o OrderByStart(S \ {first})

\* a set of rows as a list, descending by id (an order that is not by start)
RECURSIVE OrderByIdDesc(_)
OrderByIdDesc(S) ==
    IF S = {} THEN <<>>
    ELSE LET first == CHOOSE x \in S : \A y \in S : x.id >= y.id
         IN <<first>> \o OrderByIdDesc(S \ {first})

TaskLists ==
    UNION { [1..n -> TaskChoices] : n \in 0..MaxTasks }

WithIds(taskList) ==
    [ i \in 1..Len(taskList) |->
        [ id |-> i,
          deadline |-> taskList[i].deadline,
          estimated_hours4 |-> taskList[i].estimated_hours4,
          difficulty |-> taskList[i].difficulty,
          importance |-> taskList[i].importance ] ]

\* Pairs of tasks of equal effort, one urgent and important, one neither, in
\* both list orders, and wall layouts that cut a day into several gaps
MaxWallEvents == 2

PriorityEfforts == {8, 12}

PriorityPairs ==
    UNION { LET urgent == [deadline |-> 3600, estimated_hours4 |-> e,
                           difficulty |-> 3, importance |-> 5]
                later  == [deadline |-> 20880, estimated_hours4 |-> e,
                           difficulty |-> 3, importance |-> 1]
            IN { <<urgent, later>>, <<later, urgent>> } : e \in PriorityEfforts }

WallEventChoices ==
    { [id |-> 1, start_at |-> 540,  end_at |-> 600],
      [id |-> 2, start_at |-> 720,  end_at |-> 1320],
      [id |-> 3, start_at |-> 480,  end_at |-> 1320],
      [id |-> 4, start_at |-> 2040, end_at |-> 2760] }

MaxWallLocked == 2

WallLockedChoices ==
    { [id |-> 1, task_id |-> 2, start_at |-> 2040, end_at |-> 2160,
       duration_minutes |-> 120, is_locked |-> TRUE],
      [id |-> 2, task_id |-> 1, start_at |-> 2280, end_at |-> 2400,
       duration_minutes |-> 120, is_locked |-> TRUE] }

\* arguments offered to doTimeRangesOverlap and checkCollision
MaxListed == 2

InstantChoices == {540, 600, 630, 660, 720}

CandidateIntervals ==
    { iv \in InstantChoices \X InstantChoices : iv[1] < iv[2] }

CollisionEventChoices ==
    { [id |-> 1, title |-> "Cours",  start_at |-> 600, end_at |-> 660],
      [id |-> 2, title |-> "Sport",  start_at |-> 630, end_at |-> 720],
      [id |-> 3, title |-> "Repas",  start_at |-> 540, end_at |-> 600] }

CollisionBlockChoices ==
    { [id |-> 1, title |-> "Maths",    start_at |-> 600, end_at |-> 660,
       is_locked |-> TRUE],
      [id |-> 3, title |-> "Physique", start_at |-> 660, end_at |-> 720,
       is_locked |-> TRUE],
      [id |-> 4, title |-> "Chimie",   start_at |-> 630, end_at |-> 660,
       is_locked |-> TRUE] }

\* lists of at most n distinct members of S, in every order
ListsOf(S, n) ==
    { q \in UNION { [1..k -> S] : k \in 0..n } :
        \A i, j \in 1..Len(q) : q[i] = q[j] => i = j }

OverlapCalls ==
    { [ fn |-> "doTimeRangesOverlap",
        start1 |-> a[1], end1 |-> a[2], start2 |-> b[1], end2 |-> b[2] ] :
      a \in CandidateIntervals, b \in CandidateIntervals }

CollisionCalls ==
    { [ fn |-> "checkCollision",
        newStart |-> iv[1], newEnd |-> iv[2],
        fixedEvents |-> ev, lockedBlocks |-> lb, excludeBlockId |-> x ] :
      iv \in CandidateIntervals,
      ev \in ListsOf(CollisionEventChoices, MaxListed),
      lb \in ListsOf(CollisionBlockChoices, MaxListed),
      x \in {NoId} \cup { b.id : b \in CollisionBlockChoices } }

\* short tasks with deadlines near and beyond the minimum and maximum horizon
HorizonTaskChoices ==
    { [deadline |-> 3600,   estimated_hours4 |-> 4, difficulty |-> 3, importance |-> 3],
      [deadline |-> 58080,  estimated_hours4 |-> 4, difficulty |-> 3, importance |-> 3],
      [deadline |-> 58320,  estimated_hours4 |-> 4, difficulty |-> 3, importance |-> 3],
      [deadline |-> 187920, estimated_hours4 |-> 4, difficulty |-> 3, importance |-> 3] }

HorizonTaskLists ==
    UNION { [1..n -> HorizonTaskChoices] : n \in 0..MaxTasks }

\* tasks whose sessions meet the limits on a session: a remainder below the
\* smallest preferred duration, a remainder between two preferred durations,
\* a deadline well beyond the days a stalled loop walks through, and four
\* tasks that fill one day up to the global cap
SessionTaskChoices ==
    { [deadline |-> 3600,  estimated_hours4 |-> 4, difficulty |-> 3, importance |-> 3],
      [deadline |-> 6480,  estimated_hours4 |-> 7, difficulty |-> 2, importance |-> 4],
      [deadline |-> 6480,  estimated_hours4 |-> 8, difficulty |-> 3, importance |-> 3],
      [deadline |-> 22080, estimated_hours4 |-> 5, difficulty |-> 3, importance |-> 3] }

CrowdedDayTasks ==
    << [deadline |-> 6480, estimated_hours4 |-> 8, difficulty |-> 3, importance |-> 5],
       [deadline |-> 6480, estimated_hours4 |-> 6, difficulty |-> 3, importance |-> 4],
       [deadline |-> 6480, estimated_hours4 |-> 8, difficulty |-> 3, importance |-> 3],
       [deadline |-> 6480, estimated_hours4 |-> 8, difficulty |-> 3, importance |-> 1] >>

SessionTaskLists ==
    UNION { [1..n -> SessionTaskChoices] : n \in 1..MaxTasks } \cup {CrowdedDayTasks}

SessionEventChoices ==
    { [id |-> 2, start_at |-> 720,  end_at |-> 1320],
      [id |-> 4, start_at |-> 2040, end_at |-> 2760] }

\* tasks of one deadline and one effort that differ in importance and
\* difficulty only
WeightTaskChoices ==
    { [deadline |-> 6480, estimated_hours4 |-> 8, difficulty |-> 3, importance |-> 3],
      [deadline |-> 6480, estimated_hours4 |-> 8, difficulty |-> 4, importance |-> 2],
      [deadline |-> 6480, estimated_hours4 |-> 8, difficulty |-> 2, importance |-> 4],
      [deadline |-> 6480, estimated_hours4 |-> 8, difficulty |-> 5, importance |-> 2] }

WeightTaskLists ==
    UNION { [1..n -> WeightTaskChoices] : n \in 1..MaxTasks }

\* arguments offered to findFreeSlots: a day (index and weekday of day 0),
\* blocked ranges sorted by start as getBlockedRanges returns them, a config
MaxBlocked == 2

BlockedInstantChoices == {420, 480, 500, 600, 1010, 1020, 1400, 2040}

BlockedRangeChoices ==
    { r \in [start : BlockedInstantChoices, end : BlockedInstantChoices] :
        r.start < r.end }

FindFreeSlotsCalls ==
    { [ fn |-> "findFreeSlots", dayIndex |-> d, weekdayOfToday |-> wd,
        blockedRanges |-> br, config |-> cfg ] :
      d \in {0, 1}, wd \in WeekdayChoices,
      br \in { q \in UNION { [1..k -> BlockedRangeChoices] : k \in 0..MaxBlocked } :
                 \A i \in 1..(Len(q) - 1) : q[i].start <= q[i + 1].start },
      cfg \in {DEFAULT_SCHEDULER_CONFIG, CustomConfig} }

\* what the calendar page has loaded: two tasks, blocks, fixed events
MaxCalendarBlocks == 2
MaxOps == 2

CalendarTasks ==
    << [deadline |-> 3600,  estimated_hours4 |-> 8, difficulty |-> 3,
        importance |-> 5],
       [deadline |-> 20880, estimated_hours4 |-> 8, difficulty |-> 3,
        importance |-> 1] >>

CalendarBlockChoices ==
    { [id |-> 1, task_id |-> 1, title |-> "Maths", start_at |-> 600,
       end_at |-> 660, duration_minutes |-> 60, is_locked |-> TRUE],
      [id |-> 2, task_id |-> 1, title |-> "Maths", start_at |-> 660,
       end_at |-> 720, duration_minutes |-> 60, is_locked |-> FALSE],
      [id |-> 3, task_id |-> 2, title |-> "Physique", start_at |-> 630,
       end_at |-> 690, duration_minutes |-> 60, is_locked |-> FALSE] }

\* ------------------------------------------------------------------------
\* State
\* ------------------------------------------------------------------------
VARIABLES
    now,                \* the instant of the invocation (minutes into day 0)
    weekdayOfToday,     \* getDay of day 0
    tasks,              \* store.tasks
    fixedEvents,        \* store.fixedEvents
    db,                 \* rows of schedule_blocks persisted for the user
    dbBefore,           \* the rows persisted when the call started
    scheduleBlocks,     \* store.scheduleBlocks
    generationWarnings, \* store.generationWarnings
    isGenerating,       \* store.isGenerating
    error,              \* store.error
    pc,                 \* position of the running call
    mode,               \* "store": store.generateSchedule, "direct": a direct call
    config,             \* config of the running generateScheduleBlocks
    lockedBlocks,       \* lockedBlocks argument of generateScheduleBlocks
    tasksToSchedule,    \* generateScheduleBlocks: the filtered tasks
    taskContexts,       \* scheduleTasksRoundRobin: contexts in priority order
    inventory,          \* Map<number, DaySlotInventory>
    dailyTaskUsage,     \* Map<number, DailyTaskUsage>
    createdBlocks,      \* scheduleTasksRoundRobin: createdBlocks
    currentDayIndex,
    maxRounds,
    roundsWithoutPlacement,
    placedThisRound,
    ti,                 \* index of the task context the for loop is at
    result,             \* the SchedulerResult returned
    nextId,             \* source of fresh ids (crypto.randomUUID, row ids)
    call,               \* arguments of a call of an exported pure function
    ret,                \* what that call returned
    lastOp,             \* the calendar or store operation that ran last
    opCount,            \* number of calendar and store operations run
    pending,            \* updateScheduleBlock requests awaiting the service
    other               \* a second generateSchedule call, from another session

schedVars == <<config, lockedBlocks, tasksToSchedule, taskContexts, inventory,
               dailyTaskUsage, createdBlocks, currentDayIndex, maxRounds,
               roundsWithoutPlacement, placedThisRound, ti>>
inputVars == <<now, weekdayOfToday, tasks, fixedEvents>>
storeVars == <<scheduleBlocks, generationWarnings, isGenerating, error>>
uiVars == <<call, ret, lastOp, opCount, pending, other>>
vars == <<now, weekdayOfToday, tasks, fixedEvents, db, dbBefore, scheduleBlocks,
          generationWarnings, isGenerating, error, pc, mode, config,
          lockedBlocks, tasksToSchedule, taskContexts, inventory,
          dailyTaskUsage, createdBlocks, currentDayIndex, maxRounds,
          roundsWithoutPlacement, placedThisRound, ti, result, nextId,
          call, ret, lastOp, opCount, pending, other>>

NoError == "null"
NoCall == [fn |-> "none"]
NoRet == [returned |-> FALSE]
NoOp == [op |-> "none", step |-> 0]
NoResult == [returned |-> FALSE, success |-> FALSE,
             createdBlocks |-> <<>>, warnings |-> <<>>]
NoOther == [pc |-> "idle", lockedBlocks |-> <<>>, result |-> NoResult]

Init ==
    /\ now \in NowChoices
    /\ weekdayOfToday \in WeekdayChoices
    /\ \E tl \in TaskLists : tasks = WithIds(tl)
    /\ \E F \in SubsetsUpTo(FixedEventChoices, MaxFixedEvents) :
           fixedEvents = OrderByIdDesc(F)
    /\ db \in SubsetsUpTo(StoredBlockChoices, MaxStoredBlocks)
    /\ dbBefore = db
    /\ scheduleBlocks = OrderByStart(db)
    /\ generationWarnings = <<>>
    /\ isGenerating = FALSE
    /\ error = NoError
    /\ pc = "idle"
    /\ mode = "none"
    /\ config = DEFAULT_SCHEDULER_CONFIG
    /\ lockedBlocks = <<>>
    /\ tasksToSchedule = <<>>
    /\ taskContexts = <<>>
    /\ inventory = <<>>
    /\ dailyTaskUsage = <<>>
    /\ createdBlocks = <<>>
    /\ currentDayIndex = 0
    /\ maxRounds = MaxRoundsInit
    /\ roundsWithoutPlacement = 0
    /\ placedThisRound = FALSE
    /\ ti = 1
    /\ result = NoResult
    /\ nextId = FirstFreshId
    /\ call = NoCall
    /\ ret = NoRet
    /\ lastOp = NoOp
    /\ opCount = 0
    /\ pending = {}
    /\ other = NoOther

\* ------------------------------------------------------------------------
\* Services (Supabase)
\* ------------------------------------------------------------------------
\* deleteFutureUnlockedBlocks: .eq('is_locked', false).gte('start_at', now)
RowsAfterDeleteFutureUnlocked(rows, nowAt) ==
    { b \in rows : ~ (b.is_locked = FALSE /\ b.start_at >= nowAt) }

\* variant: the fetch returns every row
LockedRows_AllRows(rows) == OrderByStart(rows)

\* getLockedBlocks: .eq('is_locked', true).order('start_at')
LockedRows(rows) == OrderByStart({ b \in rows : b.is_locked = TRUE })

\* createScheduleBlocksBatch: the rows inserted for the given inputs
InsertedRows(inputs, firstId) ==
    [ i \in 1..Len(inputs) |->
        [ id |-> firstId + i - 1,
          task_id |-> inputs[i].task_id,
          start_at |-> inputs[i].start_at,
          end_at |-> inputs[i].end_at,
          duration_minutes |-> inputs[i].duration_minutes,
          is_locked |-> inputs[i].is_locked ] ]

\* ------------------------------------------------------------------------
\* store.generateSchedule
\* ------------------------------------------------------------------------
\* variant: the catch branch leaves the generating flag set
GenerateScheduleFails_KeepsFlag(message) ==
    /\ isGenerating' = TRUE
    /\ error' = message
    /\ pc' = "failed"
    /\ UNCHANGED <<scheduleBlocks, generationWarnings>>

\* the catch branch of generateSchedule
GenerateScheduleFails(message) ==
    /\ isGenerating' = FALSE
    /\ error' = message
    /\ pc' = "failed"
    /\ UNCHANGED <<scheduleBlocks, generationWarnings>>

GenerateScheduleStart ==
    /\ pc = "idle"
    /\ mode' = "store"
    /\ isGenerating' = TRUE
    /\ error' = NoError
    /\ dbBefore' = db
    /\ pc' = "delete"
    /\ UNCHANGED <<uiVars, inputVars, db, scheduleBlocks, generationWarnings, schedVars,
                   result, nextId>>

DeleteFutureUnlockedBlocks ==
    /\ pc = "delete"
    /\ \E ok \in BOOLEAN :
         IF ok
         THEN /\ db' = RowsAfterDeleteFutureUnlocked(db, now)
              /\ pc' = "fetch"
              /\ UNCHANGED storeVars
         ELSE /\ GenerateScheduleFails("delete failed")
              /\ UNCHANGED db
    /\ UNCHANGED <<uiVars, inputVars, dbBefore, mode, schedVars, result, nextId>>

\* The caller's arrays as the call leaves them: tasks.filter and .map build
\* new arrays, getBlockedRanges copies every range into a fresh array and
\* sorts that one, the loop writes to contexts and inventory slots only.
ArgumentsAfterCall_SortedInPlace(taskList, events, locked) ==
    [ tasks |-> taskList,
      fixedEvents |-> OrderByStart(SeqToSet(events)),
      lockedBlocks |-> OrderByStart(SeqToSet(locked)) ]

ArgumentsAfterCall(taskList, events, locked) ==
    [ tasks |-> taskList, fixedEvents |-> events, lockedBlocks |-> locked ]

\* entry of generateScheduleBlocks up to the first round of the loop
EnterGenerateScheduleBlocks(cfg, locked) ==
    LET eligible == TasksToSchedule(tasks, now)
        blockedRanges == getBlockedRanges(fixedEvents, locked)
        horizonDays == HorizonDays(eligible, now)
        after == ArgumentsAfterCall(tasks, fixedEvents, locked)
    IN /\ config' = cfg
       /\ tasks' = after.tasks
       /\ fixedEvents' = after.fixedEvents
       /\ lockedBlocks' = after.lockedBlocks
       /\ tasksToSchedule' = eligible
       /\ createdBlocks' = <<>>
       /\ dailyTaskUsage' = <<>>
       /\ currentDayIndex' = 0
       /\ roundsWithoutPlacement' = 0
       /\ placedThisRound' = FALSE
       /\ ti' = 1
       /\ IF Len(eligible) = 0
          THEN /\ result' = [returned |-> TRUE, success |-> TRUE,
                             createdBlocks |-> <<>>, warnings |-> <<>>]
               /\ pc' = "returned"
               /\ UNCHANGED <<taskContexts, inventory, maxRounds>>
          ELSE /\ inventory' = buildDailySlotInventory(horizonDays,
                                   weekdayOfToday, blockedRanges, cfg)
               /\ taskContexts' = InitialContexts(eligible, now)
               /\ maxRounds' = MaxRoundsInit - 1
               /\ pc' = "round"
               /\ UNCHANGED result

\* steps 2 and 3 of generateSchedule: fetch the locked blocks, call the engine
GetLockedBlocksAndGenerate ==
    /\ pc = "fetch"
    /\ \E ok \in BOOLEAN :
         IF ok
         THEN /\ EnterGenerateScheduleBlocks(DEFAULT_SCHEDULER_CONFIG, LockedRows(db))
              /\ UNCHANGED storeVars
         ELSE /\ GenerateScheduleFails("fetch failed")
              /\ UNCHANGED <<tasks, fixedEvents, schedVars, result>>
    /\ UNCHANGED <<uiVars, now, weekdayOfToday, db, dbBefore, mode, nextId>>

\* generateScheduleBlocks called by another caller with an explicit config
DirectGenerate ==
    /\ pc = "idle"
    /\ mode' = "direct"
    /\ \E cfg \in CallerConfigs :
         EnterGenerateScheduleBlocks(cfg,
             OrderByIdDesc({ b \in db : b.is_locked = TRUE }))
    /\ UNCHANGED <<uiVars, now, weekdayOfToday, db, dbBefore, storeVars, nextId>>

\* generateScheduleBlocks called with a config that is malformed: the function
\* has no validation step, the call proceeds like any other
DirectGenerateMalformed ==
    /\ pc = "idle"
    /\ mode' = "direct"
    /\ \E cfg \in MalformedConfigs :
         EnterGenerateScheduleBlocks(cfg,
             OrderByIdDesc({ b \in db : b.is_locked = TRUE }))
    /\ UNCHANGED <<uiVars, now, weekdayOfToday, db, dbBefore, storeVars, nextId>>

\* ------------------------------------------------------------------------
\* scheduleTasksRoundRobin: one iteration of the for loop over the contexts
\* ------------------------------------------------------------------------
VisitTask ==
    /\ pc = "round"
    /\ ti <= Len(taskContexts)
    /\ LET taskContext == taskContexts[ti]
           dayIndex == findNextSuitableDay(taskContext, inventory,
                           dailyTaskUsage, currentDayIndex, config)
       IN IF taskContext.remainingMinutes <= 0 \/ dayIndex = NoDay
          THEN UNCHANGED <<taskContexts, inventory, dailyTaskUsage,
                           createdBlocks, placedThisRound, nextId>>
          ELSE
            LET dayInventory == inventory[dayIndex]
                sessionDuration == calculateOptimalSessionDuration(taskContext,
                                       dayInventory, dailyTaskUsage, config)
                slotIndex == FindSuitableSlot(dayInventory.freeSlots, sessionDuration)
            IN IF sessionDuration < config.minBlockMinutes \/ slotIndex = 0
               THEN UNCHANGED <<taskContexts, inventory, dailyTaskUsage,
                                createdBlocks, placedThisRound, nextId>>
               ELSE
                 LET suitableSlot == dayInventory.freeSlots[slotIndex]
                     blockStart == suitableSlot.start
                     blockEnd == blockStart + sessionDuration
                     newBlock == [ id |-> nextId,
                                   task_id |-> taskContext.task.id,
                                   start_at |-> blockStart,
                                   end_at |-> blockEnd,
                                   duration_minutes |-> sessionDuration,
                                   is_locked |-> FALSE ]
                     used == dayInventory.usedStudyMinutes + sessionDuration
                     nextStart == blockEnd + config.breakBetweenBlocks
                     day1 == [dayInventory EXCEPT !.usedStudyMinutes = used]
                     day2 == [day1 EXCEPT
                                !.saturation = updateDaySaturation(day1),
                                !.freeSlots = ShrinkSlot(@, slotIndex, nextStart)]
                 IN /\ createdBlocks' = Append(createdBlocks, newBlock)
                    /\ nextId' = nextId + 1
                    /\ taskContexts' = [taskContexts EXCEPT
                         ![ti].remainingMinutes = @ - sessionDuration,
                         ![ti].scheduledSessions = @ + 1,
                         ![ti].lastSessionDate = dayInventory.date]
                    /\ inventory' = [inventory EXCEPT ![dayIndex] = day2]
                    /\ dailyTaskUsage' = AddTaskUsage(dailyTaskUsage, dayIndex,
                                             taskContext.task.id, sessionDuration)
                    /\ placedThisRound' = TRUE
    /\ ti' = ti + 1
    /\ UNCHANGED <<uiVars, inputVars, db, dbBefore, storeVars, pc, mode, config,
                   lockedBlocks, tasksToSchedule, currentDayIndex, maxRounds,
                   roundsWithoutPlacement, result>>

\* the end of one round of the while loop and the test that starts the next
AllComplete_Never(contexts) == FALSE

AllComplete(contexts) ==
    \A i \in 1..Len(contexts) : contexts[i].remainingMinutes <= 0

EndRound_KeepsCursor ==
    /\ pc = "round"
    /\ ti > Len(taskContexts)
    /\ LET stalled == roundsWithoutPlacement + 1
           breakOnStall ==
               /\ ~ placedThisRound
               /\ stalled > MaxRoundsWithoutPlacement
           leave == breakOnStall \/ AllComplete(taskContexts)
       IN /\ roundsWithoutPlacement' = IF placedThisRound THEN 0 ELSE stalled
          /\ currentDayIndex' = currentDayIndex
          /\ IF leave
             THEN /\ pc' = "warnings"
                  /\ UNCHANGED <<maxRounds, placedThisRound, ti>>
             ELSE /\ maxRounds' = maxRounds - 1
                  /\ IF maxRounds > 0
                     THEN /\ pc' = "round"
                          /\ placedThisRound' = FALSE
                          /\ ti' = 1
                     ELSE /\ pc' = "warnings"
                          /\ UNCHANGED <<placedThisRound, ti>>
    /\ UNCHANGED <<uiVars, inputVars, db, dbBefore, storeVars, mode, config,
                   lockedBlocks, tasksToSchedule, taskContexts, inventory,
                   dailyTaskUsage, createdBlocks, result, nextId>>

EndRound ==
    /\ pc = "round"
    /\ ti > Len(taskContexts)
    /\ LET stalled == roundsWithoutPlacement + 1
           cursor  == currentDayIndex + 1
           breakOnStall ==
               /\ ~ placedThisRound
               /\ (stalled > MaxRoundsWithoutPlacement
                   \/ cursor >= Cardinality(DOMAIN inventory))
           leave == breakOnStall \/ AllComplete(taskContexts)
       IN /\ roundsWithoutPlacement' = IF placedThisRound THEN 0 ELSE stalled
          /\ currentDayIndex' = IF placedThisRound THEN currentDayIndex ELSE cursor
          /\ IF leave
             THEN /\ pc' = "warnings"
                  /\ UNCHANGED <<maxRounds, placedThisRound, ti>>
             ELSE \* while (maxRounds-- > 0)
                  /\ maxRounds' = maxRounds - 1
                  /\ IF maxRounds > 0
                     THEN /\ pc' = "round"
                          /\ placedThisRound' = FALSE
                          /\ ti' = 1
                     ELSE /\ pc' = "warnings"
                          /\ UNCHANGED <<placedThisRound, ti>>
    /\ UNCHANGED <<uiVars, inputVars, db, dbBefore, storeVars, mode, config,
                   lockedBlocks, tasksToSchedule, taskContexts, inventory,
                   dailyTaskUsage, createdBlocks, result, nextId>>

\* generateScheduleBlocks: warnings and the returned result
ReturnResult ==
    /\ pc = "warnings"
    /\ result' = MakeResult(taskContexts, createdBlocks)
    /\ pc' = "returned"
    /\ UNCHANGED <<uiVars, inputVars, db, dbBefore, storeVars, mode, schedVars, nextId>>

\* steps 4 and 5 of generateSchedule: batch insert, then the store update
SaveCreatedBlocks ==
    /\ pc = "returned"
    /\ mode = "store"
    /\ IF Len(result.createdBlocks) > 0
       THEN \E ok \in BOOLEAN :
              IF ok
              THEN LET rows == InsertedRows(result.createdBlocks, nextId)
                   IN /\ db' = db \cup SeqToSet(rows)
                      /\ nextId' = nextId + Len(rows)
                      /\ scheduleBlocks' = lockedBlocks \o rows
                      /\ generationWarnings' = result.warnings
                      /\ isGenerating' = FALSE
                      /\ pc' = "done"
                      /\ UNCHANGED error
              ELSE /\ GenerateScheduleFails("insert failed")
                   /\ UNCHANGED <<db, nextId>>
       ELSE /\ scheduleBlocks' = lockedBlocks
            /\ generationWarnings' = result.warnings
            /\ isGenerating' = FALSE
            /\ pc' = "done"
            /\ UNCHANGED <<db, nextId, error>>
    /\ UNCHANGED <<uiVars, inputVars, dbBefore, mode, schedVars, result>>

Next ==
    \/ GenerateScheduleStart
    \/ DeleteFutureUnlockedBlocks
    \/ GetLockedBlocksAndGenerate
    \/ DirectGenerate
    \/ VisitTask
    \/ EndRound
    \/ ReturnResult
    \/ SaveCreatedBlocks

Spec == Init /\ [][Next]_vars

\* ------------------------------------------------------------------------
\* A second store.generateSchedule call of the same user, made from another
\* session (a second tab or device) while the first is under way. Each
\* session has its own store; the two share the persisted rows only. The
\* engine is a pure function of its arguments and both calls pass the same
\* tasks, fixed events and locked rows, so the second call's result is the
\* one the first call's engine run produced.
\* ------------------------------------------------------------------------
OtherGenerateScheduleStart ==
    /\ mode = "store"
    /\ other.pc = "idle"
    /\ other' = [other EXCEPT !.pc = "delete"]
    /\ UNCHANGED <<call, ret, lastOp, opCount, pending, inputVars, db, dbBefore,
                   storeVars, pc, mode, schedVars, result, nextId>>

OtherDeleteFutureUnlockedBlocks ==
    /\ other.pc = "delete"
    /\ \E ok \in BOOLEAN :
         IF ok
         THEN /\ db' = RowsAfterDeleteFutureUnlocked(db, now)
              /\ other' = [other EXCEPT !.pc = "fetch"]
         ELSE /\ other' = [other EXCEPT !.pc = "failed"]
              /\ UNCHANGED db
    /\ UNCHANGED <<call, ret, lastOp, opCount, pending, inputVars, dbBefore,
                   storeVars, pc, mode, schedVars, result, nextId>>

OtherGetLockedBlocksAndGenerate ==
    /\ other.pc = "fetch"
    /\ \E ok \in BOOLEAN :
         IF ok
         THEN /\ result.returned
              /\ LockedRows(db) = lockedBlocks
              /\ other' = [other EXCEPT !.pc = "returned",
                                        !.lockedBlocks = LockedRows(db),
                                        !.result = result]
         ELSE other' = [other EXCEPT !.pc = "failed"]
    /\ UNCHANGED <<call, ret, lastOp, opCount, pending, inputVars, db, dbBefore,
                   storeVars, pc, mode, schedVars, result, nextId>>

OtherSaveCreatedBlocks ==
    /\ other.pc = "returned"
    /\ IF Len(other.result.createdBlocks) > 0
       THEN \E ok \in BOOLEAN :
              IF ok
              THEN LET rows == InsertedRows(other.result.createdBlocks, nextId)
                   IN /\ db' = db \cup SeqToSet(rows)
                      /\ nextId' = nextId + Len(rows)
                      /\ other' = [other EXCEPT !.pc = "done"]
              ELSE /\ other' = [other EXCEPT !.pc = "failed"]
                   /\ UNCHANGED <<db, nextId>>
       ELSE /\ other' = [other EXCEPT !.pc = "done"]
            /\ UNCHANGED <<db, nextId>>
    /\ UNCHANGED <<call, ret, lastOp, opCount, pending, inputVars, dbBefore,
                   storeVars, pc, mode, schedVars, result>>

TwoCallsTaskChoices ==
    { [deadline |-> 6480, estimated_hours4 |-> 4, difficulty |-> 3, importance |-> 3],
      [deadline |-> 1860, estimated_hours4 |-> 6, difficulty |-> 3, importance |-> 5] }

TwoCallsTaskLists ==
    UNION { [1..n -> TwoCallsTaskChoices] : n \in 1..MaxTasks }

InitTwoCalls ==
    /\ now \in NowChoices
    /\ weekdayOfToday = 1
    /\ \E tl \in TwoCallsTaskLists : tasks = WithIds(tl)
    /\ fixedEvents = <<>>
    /\ db \in SubsetsUpTo(StoredBlockChoices, MaxStoredBlocks)
    /\ dbBefore = db
    /\ scheduleBlocks = OrderByStart(db)
    /\ generationWarnings = <<>>
    /\ isGenerating = FALSE
    /\ error = NoError
    /\ pc = "idle"
    /\ mode = "none"
    /\ config = DEFAULT_SCHEDULER_CONFIG
    /\ lockedBlocks = <<>>
    /\ tasksToSchedule = <<>>
    /\ taskContexts = <<>>
    /\ inventory = <<>>
    /\ dailyTaskUsage = <<>>
    /\ createdBlocks = <<>>
    /\ currentDayIndex = 0
    /\ maxRounds = MaxRoundsInit
    /\ roundsWithoutPlacement = 0
    /\ placedThisRound = FALSE
    /\ ti = 1
    /\ result = NoResult
    /\ nextId = FirstFreshId
    /\ call = NoCall
    /\ ret = NoRet
    /\ lastOp = NoOp
    /\ opCount = 0
    /\ pending = {}
    /\ other = NoOther

NextTwoCalls ==
    \/ GenerateScheduleStart
    \/ DeleteFutureUnlockedBlocks
    \/ GetLockedBlocksAndGenerate
    \/ VisitTask
    \/ EndRound
    \/ ReturnResult
    \/ SaveCreatedBlocks
    \/ OtherGenerateScheduleStart
    \/ OtherDeleteFutureUnlockedBlocks
    \/ OtherGetLockedBlocksAndGenerate
    \/ OtherSaveCreatedBlocks

SpecTwoCalls == InitTwoCalls /\ [][NextTwoCalls]_vars

\* ------------------------------------------------------------------------
\* store.generateSchedule alone, on few tasks: one call from start to return
\* ------------------------------------------------------------------------
StoreTaskChoices ==
    TwoCallsTaskChoices \cup
    { [deadline |-> 6480, estimated_hours4 |-> 0, difficulty |-> 3, importance |-> 3],
      [deadline |-> 600,  estimated_hours4 |-> 4, difficulty |-> 3, importance |-> 1] }

StoreTaskLists ==
    UNION { [1..n -> StoreTaskChoices] : n \in 0..MaxTasks }

InitStore ==
    /\ now \in NowChoices
    /\ weekdayOfToday = 1
    /\ \E tl \in StoreTaskLists : tasks = WithIds(tl)
    /\ \E F \in SubsetsUpTo(FixedEventChoices, MaxFixedEvents) :
           fixedEvents = OrderByIdDesc(F)
    /\ db \in SubsetsUpTo(StoredBlockChoices, MaxStoredBlocks)
    /\ dbBefore = db
    /\ scheduleBlocks = OrderByStart(db)
    /\ generationWarnings = <<>>
    /\ isGenerating = FALSE
    /\ error = NoError
    /\ pc = "idle"
    /\ mode = "none"
    /\ config = DEFAULT_SCHEDULER_CONFIG
    /\ lockedBlocks = <<>>
    /\ tasksToSchedule = <<>>
    /\ taskContexts = <<>>
    /\ inventory = <<>>
    /\ dailyTaskUsage = <<>>
    /\ createdBlocks = <<>>
    /\ currentDayIndex = 0
    /\ maxRounds = MaxRoundsInit
    /\ roundsWithoutPlacement = 0
    /\ placedThisRound = FALSE
    /\ ti = 1
    /\ result = NoResult
    /\ nextId = FirstFreshId
    /\ call = NoCall
    /\ ret = NoRet
    /\ lastOp = NoOp
    /\ opCount = 0
    /\ pending = {}
    /\ other = NoOther

NextStore ==
    \/ GenerateScheduleStart
    \/ DeleteFutureUnlockedBlocks
    \/ GetLockedBlocksAndGenerate
    \/ VisitTask
    \/ EndRound
    \/ ReturnResult
    \/ SaveCreatedBlocks

SpecStore == InitStore /\ [][NextStore]_vars

\* no generation running, nothing generated yet
EngineIdle ==
    /\ generationWarnings = <<>>
    /\ isGenerating = FALSE
    /\ error = NoError
    /\ pc = "idle"
    /\ mode = "none"
    /\ config = DEFAULT_SCHEDULER_CONFIG
    /\ lockedBlocks = <<>>
    /\ tasksToSchedule = <<>>
    /\ taskContexts = <<>>
    /\ inventory = <<>>
    /\ dailyTaskUsage = <<>>
    /\ createdBlocks = <<>>
    /\ currentDayIndex = 0
    /\ maxRounds = MaxRoundsInit
    /\ roundsWithoutPlacement = 0
    /\ placedThisRound = FALSE
    /\ ti = 1
    /\ result = NoResult

\* generation for pairs of tasks of unequal priority among several walls
InitWalls ==
    /\ EngineIdle
    /\ now \in NowChoices
    /\ weekdayOfToday \in WeekdayChoices
    /\ \E tl \in PriorityPairs : tasks = WithIds(tl)
    /\ \E F \in SubsetsUpTo(WallEventChoices, MaxWallEvents) :
           fixedEvents = OrderByIdDesc(F)
    /\ db \in SubsetsUpTo(WallLockedChoices, MaxWallLocked)
    /\ dbBefore = db
    /\ scheduleBlocks = OrderByStart(db)
    /\ nextId = FirstFreshId
    /\ call = NoCall
    /\ ret = NoRet
    /\ lastOp = NoOp
    /\ opCount = 0
    /\ pending = {}
    /\ other = NoOther

SpecWalls == InitWalls /\ [][Next]_vars

\* generation for tasks whose deadlines decide the length of the horizon
InitHorizon ==
    /\ EngineIdle
    /\ now \in NowChoices
    /\ weekdayOfToday \in WeekdayChoices
    /\ \E tl \in HorizonTaskLists : tasks = WithIds(tl)
    /\ fixedEvents = <<>>
    /\ db = {}
    /\ dbBefore = db
    /\ scheduleBlocks = <<>>
    /\ nextId = FirstFreshId
    /\ call = NoCall
    /\ ret = NoRet
    /\ lastOp = NoOp
    /\ opCount = 0
    /\ pending = {}
    /\ other = NoOther

SpecHorizon == InitHorizon /\ [][Next]_vars

\* generation for tasks whose sessions meet the limits on a session
InitSessions ==
    /\ EngineIdle
    /\ now \in NowChoices
    /\ weekdayOfToday \in WeekdayChoices
    /\ \E tl \in SessionTaskLists : tasks = WithIds(tl)
    /\ \E F \in SubsetsUpTo(SessionEventChoices, MaxWallEvents) :
           fixedEvents = OrderByIdDesc(F)
    /\ db = {}
    /\ dbBefore = db
    /\ scheduleBlocks = <<>>
    /\ nextId = FirstFreshId
    /\ call = NoCall
    /\ ret = NoRet
    /\ lastOp = NoOp
    /\ opCount = 0
    /\ pending = {}
    /\ other = NoOther

\* generateScheduleBlocks called with the config that spreads a task thinly
DirectGenerateSpread ==
    /\ pc = "idle"
    /\ mode' = "direct"
    /\ EnterGenerateScheduleBlocks(SpreadConfig,
           OrderByIdDesc({ b \in db : b.is_locked = TRUE }))
    /\ UNCHANGED <<uiVars, now, weekdayOfToday, db, dbBefore, storeVars, nextId>>

NextSessions ==
    \/ GenerateScheduleStart
    \/ DeleteFutureUnlockedBlocks
    \/ GetLockedBlocksAndGenerate
    \/ DirectGenerate
    \/ DirectGenerateSpread
    \/ VisitTask
    \/ EndRound
    \/ ReturnResult
    \/ SaveCreatedBlocks

SpecSessions == InitSessions /\ [][NextSessions]_vars

\* generation for tasks that differ in importance and difficulty only
InitWeights ==
    /\ EngineIdle
    /\ now \in NowChoices
    /\ weekdayOfToday \in WeekdayChoices
    /\ \E tl \in WeightTaskLists : tasks = WithIds(tl)
    /\ fixedEvents = <<>>
    /\ db = {}
    /\ dbBefore = db
    /\ scheduleBlocks = <<>>
    /\ nextId = FirstFreshId
    /\ call = NoCall
    /\ ret = NoRet
    /\ lastOp = NoOp
    /\ opCount = 0
    /\ pending = {}
    /\ other = NoOther

SpecWeights == InitWeights /\ [][Next]_vars

\* direct calls of the engine with malformed configs
InitMalformed ==
    /\ Init
    /\ now = 570
    /\ db = {}

NextMalformed ==
    \/ DirectGenerateMalformed
    \/ VisitTask
    \/ EndRound
    \/ ReturnResult

SpecMalformed == InitMalformed /\ [][NextMalformed]_vars

\* ------------------------------------------------------------------------
\* Calls of the exported pure functions doTimeRangesOverlap and checkCollision
\* ------------------------------------------------------------------------
InitCollision ==
    /\ EngineIdle
    /\ now = 570
    /\ weekdayOfToday = 1
    /\ tasks = <<>>
    /\ fixedEvents = <<>>
    /\ db = {}
    /\ dbBefore = {}
    /\ scheduleBlocks = <<>>
    /\ nextId = FirstFreshId
    /\ call \in OverlapCalls \cup CollisionCalls
    /\ ret = NoRet
    /\ lastOp = NoOp
    /\ opCount = 0
    /\ pending = {}
    /\ other = NoOther

CallDoTimeRangesOverlap ==
    /\ call.fn = "doTimeRangesOverlap"
    /\ ~ ret.returned
    /\ ret' = [ returned |-> TRUE,
                value |-> doTimeRangesOverlap(call.start1, call.end1,
                                              call.start2, call.end2) ]
    /\ UNCHANGED <<inputVars, db, dbBefore, storeVars, pc, mode, schedVars,
                   result, nextId, other, call, lastOp, opCount, pending>>

CallCheckCollision ==
    /\ call.fn = "checkCollision"
    /\ ~ ret.returned
    /\ ret' = [ returned |-> TRUE,
                value |-> checkCollision(call.newStart, call.newEnd,
                              call.fixedEvents, call.lockedBlocks,
                              call.excludeBlockId) ]
    /\ UNCHANGED <<inputVars, db, dbBefore, storeVars, pc, mode, schedVars,
                   result, nextId, other, call, lastOp, opCount, pending>>

NextCollision ==
    \/ CallDoTimeRangesOverlap
    \/ CallCheckCollision

SpecCollision == InitCollision /\ [][NextCollision]_vars

\* calls of the helper findFreeSlots
InitFreeSlots ==
    /\ EngineIdle
    /\ now = 570
    /\ weekdayOfToday = 1
    /\ tasks = <<>>
    /\ fixedEvents = <<>>
    /\ db = {}
    /\ dbBefore = {}
    /\ scheduleBlocks = <<>>
    /\ nextId = FirstFreshId
    /\ call \in FindFreeSlotsCalls
    /\ ret = NoRet
    /\ lastOp = NoOp
    /\ opCount = 0
    /\ pending = {}
    /\ other = NoOther

CallFindFreeSlots ==
    /\ call.fn = "findFreeSlots"
    /\ ~ ret.returned
    /\ ret' = [ returned |-> TRUE,
                value |-> findFreeSlots(call.dayIndex, call.weekdayOfToday,
                                        call.blockedRanges, call.config) ]
    /\ UNCHANGED <<inputVars, db, dbBefore, storeVars, pc, mode, schedVars,
                   result, nextId, other, call, lastOp, opCount, pending>>

SpecFreeSlots == InitFreeSlots /\ [][CallFindFreeSlots]_vars

\* ------------------------------------------------------------------------
\* The calendar page: drag and resize handlers, store.updateScheduleBlock,
\* store.deleteTask
\* ------------------------------------------------------------------------
InitCalendar ==
    /\ EngineIdle
    /\ now = 570
    /\ weekdayOfToday = 1
    /\ tasks = WithIds(CalendarTasks)
    /\ \E F \in SubsetsUpTo(CollisionEventChoices, MaxFixedEvents) :
           fixedEvents = OrderByIdDesc(F)
    /\ db \in SubsetsUpTo(CalendarBlockChoices, MaxCalendarBlocks)
    /\ dbBefore = db
    /\ scheduleBlocks = OrderByStart(db)
    /\ nextId = FirstFreshId
    /\ call = NoCall
    /\ ret = NoRet
    /\ lastOp = NoOp
    /\ opCount = 0
    /\ pending = {}
    /\ other = NoOther

\* events: the calendar events built from the store (id prefixed by kind)
CalendarEvents ==
    { [type |-> "schedule_block", id |-> <<"block-", scheduleBlocks[i].id>>] :
        i \in 1..Len(scheduleBlocks) }
    \cup
    { [type |-> "fixed_event", id |-> <<"fixed-", fixedEvents[i].id>>] :
        i \in 1..Len(fixedEvents) }

\* event.id.toString().replace("block-", "")
BlockIdOf(event) == IF event.id[1] = "block-" THEN event.id[2] ELSE event.id

\* scheduleBlocks.filter((b) => b.is_locked)
LockedOf_All(blocks) == blocks

LockedOf(blocks) == SelectSeq(blocks, LAMBDA b : b.is_locked)

\* the body shared by handleEventDrop and handleEventResize, up to the await
HandleMove(kind, event, start, end) ==
    /\ opCount < MaxOps
    /\ opCount' = opCount + 1
    /\ IF event.type # "schedule_block"
       THEN /\ lastOp' = [ op |-> kind, step |-> lastOp.step + 1,
                           type |-> event.type,
                           toast |-> "Seuls les blocs de travail" ]
            /\ UNCHANGED pending
       ELSE LET blockId == BlockIdOf(event)
                locked == LockedOf(scheduleBlocks)
                collision == checkCollision(start, end, fixedEvents, locked, blockId)
            IN /\ lastOp' = [ op |-> kind, step |-> lastOp.step + 1,
                              type |-> event.type, blockId |-> blockId,
                              start |-> start, end |-> end,
                              args |-> [fixedEvents |-> fixedEvents,
                                        lockedBlocks |-> locked,
                                        excludeBlockId |-> blockId],
                              collision |-> collision,
                              toast |-> IF collision.hasCollision
                                        THEN collision.message
                                        ELSE <<>> ]
               /\ pending' = IF collision.hasCollision
                             THEN pending
                             ELSE pending \cup { [ id |-> blockId,
                                                   start_at |-> start,
                                                   end_at |-> end,
                                                   is_locked |-> TRUE ] }
    /\ UNCHANGED <<inputVars, db, dbBefore, storeVars, pc, mode, schedVars,
                   result, nextId, other, call, ret>>

HandleEventDrop ==
    \E event \in CalendarEvents, iv \in CandidateIntervals :
        HandleMove("handleEventDrop", event, iv[1], iv[2])

HandleEventResize ==
    \E event \in CalendarEvents, iv \in CandidateIntervals :
        HandleMove("handleEventResize", event, iv[1], iv[2])

\* services.updateScheduleBlock: .update(input).eq('id', id).select().single()
UpdatedRow(row, input) ==
    [row EXCEPT !.start_at = input.start_at,
                !.end_at = input.end_at,
                !.is_locked = input.is_locked]

\* store.updateScheduleBlock from the answer of the service on
UpdateScheduleBlock ==
    \E req \in pending, ok \in BOOLEAN :
        LET rows == { r \in db : r.id = req.id }
            succeeds == ok /\ rows # {}
        IN /\ pending' = pending \ {req}
           /\ lastOp' = [ op |-> "updateScheduleBlock",
                          step |-> lastOp.step + 1,
                          request |-> req, ok |-> succeeds ]
           /\ IF succeeds
              THEN LET row == CHOOSE r \in rows : TRUE
                       data == UpdatedRow(row, req)
                   IN /\ db' = (db \ {row}) \cup {data}
                      /\ scheduleBlocks' =
                            [ i \in 1..Len(scheduleBlocks) |->
                                IF scheduleBlocks[i].id = req.id
                                THEN data ELSE scheduleBlocks[i] ]
                      /\ UNCHANGED error
              ELSE /\ error' = "update failed"
                   /\ UNCHANGED <<db, scheduleBlocks>>
           /\ UNCHANGED <<inputVars, dbBefore, generationWarnings, isGenerating,
                          pc, mode, schedVars, result, nextId, other, call, ret, opCount>>

\* store.deleteTask: what stays in the store after a successful delete
BlocksAfterDeleteTask_KeepsBlocks(blocks, taskId) == blocks

BlocksAfterDeleteTask(blocks, taskId) ==
    SelectSeq(blocks, LAMBDA b : b.task_id # taskId)

TasksAfterDeleteTask(taskList, taskId) ==
    SelectSeq(taskList, LAMBDA t : t.id # taskId)

\* schedule_blocks.task_id REFERENCES tasks(id) ON DELETE CASCADE
RowsAfterDeleteTask(rows, taskId) == { r \in rows : r.task_id # taskId }

DeleteTask ==
    /\ opCount < MaxOps
    /\ opCount' = opCount + 1
    /\ \E taskId \in 1..Len(CalendarTasks), ok \in BOOLEAN :
         /\ lastOp' = [ op |-> "deleteTask", step |-> lastOp.step + 1,
                        taskId |-> taskId, ok |-> ok,
                        before |-> scheduleBlocks ]
         /\ IF ok
            THEN /\ db' = RowsAfterDeleteTask(db, taskId)
                 /\ tasks' = TasksAfterDeleteTask(tasks, taskId)
                 /\ scheduleBlocks' = BlocksAfterDeleteTask(scheduleBlocks, taskId)
                 /\ UNCHANGED error
            ELSE /\ error' = "delete failed"
                 /\ UNCHANGED <<db, tasks, scheduleBlocks>>
    /\ UNCHANGED <<now, weekdayOfToday, fixedEvents, dbBefore,
                   generationWarnings, isGenerating, pc, mode, schedVars,
                   result, nextId, other, call, ret, pending>>

NextCalendar ==
    \/ HandleEventDrop
    \/ HandleEventResize
    \/ UpdateScheduleBlock
    \/ DeleteTask

SpecCalendar == InitCalendar /\ [][NextCalendar]_vars

\* ========================================================================
\* Properties
\* ========================================================================
\* vocabulary of the properties
Intersect(aStart, aEnd, bStart, bEnd) == aStart < bEnd /\ bStart < aEnd

WallIntervals ==
    { <<fixedEvents[i].start_at, fixedEvents[i].end_at>> : i \in 1..Len(fixedEvents) }
    \cup
    { <<lockedBlocks[i].start_at, lockedBlocks[i].end_at>> : i \in 1..Len(lockedBlocks) }

EngineEntered == pc \in {"round", "warnings", "returned", "done"}
    \/ (pc = "failed" /\ result.returned)

Eligible(task) == task.estimated_hours4 * 15 > 0 /\ now < task.deadline

EffortMinutes(task) == task.estimated_hours4 * 15

RECURSIVE MinutesOfTask(_, _)
MinutesOfTask(blocks, taskId) ==
    IF blocks = <<>> THEN 0
    ELSE (IF Head(blocks).task_id = taskId THEN Head(blocks).duration_minutes ELSE 0)
         + MinutesOfTask(Tail(blocks), taskId)

HasWarning(taskId) ==
    \E k \in 1..Len(result.warnings) : result.warnings[k].taskId = taskId

DayOf(instant) == instant \div MinutesPerDay

\* C1: no created block overlaps a fixed event or a locked block passed as
\* input; intervals that only touch at an endpoint do not overlap.
C1_NoOverlapWithWalls ==
    \A i \in 1..Len(createdBlocks) : \A w \in WallIntervals :
        ~ Intersect(createdBlocks[i].start_at, createdBlocks[i].end_at, w[1], w[2])

\* a finished run in which a block was placed immediately after a wall
C1_Witness ==
    /\ pc = "returned"
    /\ \E i \in 1..Len(createdBlocks) : \E w \in WallIntervals :
           createdBlocks[i].start_at = w[2]

\* C2: every created block ends at or before the deadline of its task.
C2_DeadlineRespect ==
    \A i \in 1..Len(createdBlocks) :
        createdBlocks[i].end_at <= tasks[createdBlocks[i].task_id].deadline

\* C3: for each scheduled task, minutes of its created blocks plus minutes of
\* its locked blocks passed as input are at most its effort, and equal to it
\* when the result carries no warning for the task.
C3_Conservation ==
    result.returned =>
      \A t \in 1..Len(tasks) : Eligible(tasks[t]) =>
        LET total == MinutesOfTask(result.createdBlocks, t)
                     + MinutesOfTask(lockedBlocks, t)
        IN /\ total <= EffortMinutes(tasks[t])
           /\ (~ HasWarning(t) => total = EffortMinutes(tasks[t]))

\* C4: an eligible task has a warning iff its locked plus newly created
\* minutes are strictly less than its effort.
C4_WarningCorrectness ==
    result.returned =>
      \A t \in 1..Len(tasks) : Eligible(tasks[t]) =>
        (HasWarning(t) <=>
           MinutesOfTask(result.createdBlocks, t) + MinutesOfTask(lockedBlocks, t)
               < EffortMinutes(tasks[t]))

\* C5: no two blocks created in one run overlap each other.
C5_NoOverlapAmongCreated ==
    \A i, j \in 1..Len(createdBlocks) : i # j =>
        ~ Intersect(createdBlocks[i].start_at, createdBlocks[i].end_at,
                    createdBlocks[j].start_at, createdBlocks[j].end_at)

\* two blocks of different tasks were placed back to back in the same slot
C5_Witness ==
    \E i, j \in 1..Len(createdBlocks) :
        /\ createdBlocks[i].task_id # createdBlocks[j].task_id
        /\ createdBlocks[i].end_at = createdBlocks[j].start_at

C7_RegenerationPreservesAndAvoids ==
    pc = "done" =>
      LET survivors == { b \in dbBefore : b.is_locked \/ b.start_at < now }
          inserted  == db \ dbBefore
      IN /\ \A b \in dbBefore \ db : ~ b.is_locked /\ b.start_at >= now
         /\ survivors \subseteq db
         /\ \A n \in inserted : \A b \in survivors :
                ~ Intersect(n.start_at, n.end_at, b.start_at, b.end_at)

C9_SuccessIffNoWarnings ==
    result.returned =>
      /\ result.success <=> (Len(result.warnings) = 0)
      /\ result.createdBlocks = createdBlocks
      /\ \A i \in 1..Len(taskContexts) :
            MinutesOfTask(result.createdBlocks, taskContexts[i].task.id)
              = EffortMinutes(taskContexts[i].task) - taskContexts[i].remainingMinutes

\* a failed run that still returns the blocks it placed
C9_Witness ==
    /\ result.returned
    /\ ~ result.success
    /\ Len(result.createdBlocks) > 0

\* C10: at most one warning per task, and unscheduledHours * 60 is the effort
\* minutes of the task minus the minutes of its created blocks.
C10_WarningRemainder ==
    result.returned =>
      /\ \A k, l \in 1..Len(result.warnings) :
            result.warnings[k].taskId = result.warnings[l].taskId => k = l
      /\ \A k \in 1..Len(result.warnings) :
            LET w == result.warnings[k]
            IN w.unscheduledHours.num * 60
                 = w.unscheduledHours.den
                     * (EffortMinutes(tasks[w.taskId])
                        - MinutesOfTask(result.createdBlocks, w.taskId))

\* a warning for a task that did receive some blocks
C10_Witness ==
    /\ result.returned
    /\ \E k \in 1..Len(result.warnings) :
           MinutesOfTask(result.createdBlocks, result.warnings[k].taskId) > 0

\* C11: the placement loop terminates. Every step inside the loop strictly
\* decreases a measure that is never negative (rounds left, then contexts left
\* in the round), at most 200 rounds are started, and a round that ends with
\* every task's remaining minutes at zero or below leaves the loop at once.
C11_Measure == maxRounds * (Len(taskContexts) + 2) + (Len(taskContexts) + 1 - ti)

C12_WellFormed(cfg) ==
    /\ cfg.minBlockMinutes <= cfg.maxBlockMinutes
    /\ \A d \in DOMAIN cfg.dailyWorkHours :
           cfg.dailyWorkHours[d].start < cfg.dailyWorkHours[d].end

C12_MalformedConfigFailsFast ==
    (EngineEntered /\ ~ C12_WellFormed(config)) => ~ result.returned

\* C13: doTimeRangesOverlap is true exactly when the two intervals share an
\* interior point, that is when start1 < end2 and start2 < end1; intervals
\* that only touch at an endpoint do not overlap; the result is symmetric.
\* Interior points are looked for on the half-minute grid.
C13_SharesInteriorPoint(s1, e1, s2, e2) ==
    \E p \in (2 * s1)..(2 * e1) :
        /\ 2 * s1 < p /\ p < 2 * e1
        /\ 2 * s2 < p /\ p < 2 * e2

C13_OverlapIsOpenIntersection ==
    (call.fn = "doTimeRangesOverlap" /\ ret.returned) =>
      /\ ret.value <=> C13_SharesInteriorPoint(call.start1, call.end1,
                                               call.start2, call.end2)
      /\ ret.value <=> (call.start1 < call.end2 /\ call.start2 < call.end1)
      /\ (call.end1 = call.start2 \/ call.end2 = call.start1) => ~ ret.value
      /\ ret.value = doTimeRangesOverlap(call.start2, call.end2,
                                         call.start1, call.end1)

\* two adjacent intervals were compared
C13_Witness ==
    /\ call.fn = "doTimeRangesOverlap"
    /\ ret.returned
    /\ call.end1 = call.start2
    /\ ret.value = FALSE

\* vocabulary of the claims about checkCollision
CollisionReturned == call.fn = "checkCollision" /\ ret.returned

EventHits(i) ==
    Intersect(call.newStart, call.newEnd,
              call.fixedEvents[i].start_at, call.fixedEvents[i].end_at)

BlockHits(j) ==
    /\ call.lockedBlocks[j].id # call.excludeBlockId
    /\ Intersect(call.newStart, call.newEnd,
                 call.lockedBlocks[j].start_at, call.lockedBlocks[j].end_at)

\* C14: checkCollision reports a collision if and only if the candidate
\* overlaps some fixed event or some locked block whose id differs from
\* excludeBlockId; a fixed event is never excluded, whatever its id; without
\* a conflict the result is exactly {hasCollision: false}.
C14_CollisionIffOverlap ==
    CollisionReturned =>
      LET hit == \/ \E i \in 1..Len(call.fixedEvents) : EventHits(i)
                 \/ \E j \in 1..Len(call.lockedBlocks) : BlockHits(j)
      IN /\ ret.value.hasCollision <=> hit
         /\ ~ hit => ret.value = [hasCollision |-> FALSE]

\* a fixed event whose id equals excludeBlockId still collides
C14_Witness ==
    /\ CollisionReturned
    /\ ret.value.hasCollision
    /\ \A j \in 1..Len(call.lockedBlocks) : ~ BlockHits(j)
    /\ \E i \in 1..Len(call.fixedEvents) :
           call.fixedEvents[i].id = call.excludeBlockId /\ EventHits(i)

\* C15 as stated: a candidate identical to or overlapping a listed locked
\* block, checked with that block's id excluded, returns no collision.
C15_ExcludedBlockNoCollision ==
    ( /\ CollisionReturned
      /\ \E j \in 1..Len(call.lockedBlocks) :
             /\ call.lockedBlocks[j].id = call.excludeBlockId
             /\ Intersect(call.newStart, call.newEnd,
                          call.lockedBlocks[j].start_at,
                          call.lockedBlocks[j].end_at) )
    => ~ ret.value.hasCollision

\* C15 amended: such a check returns no collision unless a fixed event or
\* another locked block overlaps the candidate, and the excluded block is
\* never the conflict that is reported.
C15_ExcludedBlockNeverReported ==
    CollisionReturned =>
      \A j \in 1..Len(call.lockedBlocks) :
        ( /\ call.lockedBlocks[j].id = call.excludeBlockId
          /\ Intersect(call.newStart, call.newEnd,
                       call.lockedBlocks[j].start_at,
                       call.lockedBlocks[j].end_at) )
        => /\ ( /\ \A i \in 1..Len(call.fixedEvents) : ~ EventHits(i)
                /\ \A k \in 1..Len(call.lockedBlocks) : ~ BlockHits(k) )
              => ret.value = [hasCollision |-> FALSE]
           /\ ret.value.hasCollision =>
                 ret.value.message[2] # call.lockedBlocks[j].title

\* a block checked against its own interval, next to another locked block
C15_Witness ==
    /\ CollisionReturned
    /\ ~ ret.value.hasCollision
    /\ Len(call.lockedBlocks) = 2
    /\ \E j \in 1..Len(call.lockedBlocks) :
           /\ call.lockedBlocks[j].id = call.excludeBlockId
           /\ call.lockedBlocks[j].start_at = call.newStart
           /\ call.lockedBlocks[j].end_at = call.newEnd

\* C16: a candidate that overlaps a fixed event is reported as 'fixed_event'
\* even when a locked block overlaps too; 'locked_block' is reported only
\* when no fixed event overlaps; the conflict named in the message is the
\* first one of its kind in list order.
C16_FixedEventsTakePrecedence ==
    CollisionReturned =>
      /\ (\E i \in 1..Len(call.fixedEvents) : EventHits(i)) =>
            /\ ret.value.type = "fixed_event"
            /\ \E i \in 1..Len(call.fixedEvents) :
                   /\ EventHits(i)
                   /\ \A h \in 1..(i - 1) : ~ EventHits(h)
                   /\ ret.value.message[2] = call.fixedEvents[i].title
      /\ ( /\ \A i \in 1..Len(call.fixedEvents) : ~ EventHits(i)
           /\ \E j \in 1..Len(call.lockedBlocks) : BlockHits(j) ) =>
            /\ ret.value.type = "locked_block"
            /\ \E j \in 1..Len(call.lockedBlocks) :
                   /\ BlockHits(j)
                   /\ \A h \in 1..(j - 1) : ~ BlockHits(h)
                   /\ ret.value.message[2] = call.lockedBlocks[j].title

\* two fixed events and a locked block all overlap the candidate
C16_Witness ==
    /\ CollisionReturned
    /\ ret.value.hasCollision
    /\ ret.value.type = "fixed_event"
    /\ Len(call.fixedEvents) = 2
    /\ EventHits(1) /\ EventHits(2)
    /\ \E j \in 1..Len(call.lockedBlocks) : BlockHits(j)

\* vocabulary of the claims about the order of placement
HasBlock(taskId) ==
    \E k \in 1..Len(result.createdBlocks) :
        result.createdBlocks[k].task_id = taskId

EarliestStart(taskId) ==
    MinOfSet({ result.createdBlocks[k].start_at :
                 k \in { h \in 1..Len(result.createdBlocks) :
                            result.createdBlocks[h].task_id = taskId } })

FirstCreated(taskId) ==
    MinOfSet({ k \in 1..Len(result.createdBlocks) :
                 result.createdBlocks[k].task_id = taskId })

Outranks(a, b) ==
    /\ Eligible(a) /\ Eligible(b)
    /\ a.deadline < b.deadline
    /\ a.importance > b.importance
    /\ a.estimated_hours4 = b.estimated_hours4
    /\ HasBlock(a.id) /\ HasBlock(b.id)

MoveOfBlock(op) ==
    /\ op.op \in {"handleEventDrop", "handleEventResize"}
    /\ op.type = "schedule_block"

RequestOf(op) ==
    [ id |-> op.blockId, start_at |-> op.start, end_at |-> op.end,
      is_locked |-> TRUE ]

PersistedAs(rows, blocks, req) ==
    /\ \E r \in rows :
          /\ r.id = req.id
          /\ r.start_at = req.start_at /\ r.end_at = req.end_at
          /\ r.is_locked = TRUE
    /\ \A i \in 1..Len(blocks) :
          blocks[i].id = req.id =>
            /\ blocks[i].start_at = req.start_at
            /\ blocks[i].end_at = req.end_at
            /\ blocks[i].is_locked = TRUE

\* what a drag or a resize of a block does before it awaits the update
HandlerChecksThenIssues ==
    (lastOp' # lastOp /\ MoveOfBlock(lastOp')) =>
      /\ lastOp'.args =
            [ fixedEvents |-> fixedEvents,
              lockedBlocks |-> SelectSeq(scheduleBlocks, LAMBDA b : b.is_locked),
              excludeBlockId |-> lastOp'.blockId ]
      /\ lastOp'.collision.hasCollision <=>
            \/ \E i \in 1..Len(fixedEvents) :
                  Intersect(lastOp'.start, lastOp'.end,
                            fixedEvents[i].start_at, fixedEvents[i].end_at)
            \/ \E i \in 1..Len(scheduleBlocks) :
                  /\ scheduleBlocks[i].is_locked
                  /\ scheduleBlocks[i].id # lastOp'.blockId
                  /\ Intersect(lastOp'.start, lastOp'.end,
                               scheduleBlocks[i].start_at,
                               scheduleBlocks[i].end_at)
      /\ db' = db /\ scheduleBlocks' = scheduleBlocks
      /\ lastOp'.collision.hasCollision => pending' = pending
      /\ ~ lastOp'.collision.hasCollision =>
            pending' = pending \cup {RequestOf(lastOp')}

\* C18 as stated: a drag or resize of a block checks the candidate against
\* the current fixed events and the currently locked blocks except the moved
\* one; on a collision no update is issued and the block stays as it was;
\* otherwise the block is persisted with the new interval and is_locked.
C18_DragPersistsUnlessCollision ==
    [][ /\ HandlerChecksThenIssues
        /\ (lastOp' # lastOp /\ lastOp'.op = "updateScheduleBlock") =>
              PersistedAs(db', scheduleBlocks', lastOp'.request)
      ]_vars

\* C18 amended: without a collision the handler issues updateScheduleBlock
\* with the new interval and is_locked = true; the block is persisted so when
\* the service succeeds, and when the service fails the block is unchanged
\* and the store's error is set.
C18_DragIssuesUpdateUnlessCollision ==
    [][ /\ HandlerChecksThenIssues
        /\ (lastOp' # lastOp /\ lastOp'.op = "updateScheduleBlock") =>
              IF lastOp'.ok
              THEN PersistedAs(db', scheduleBlocks', lastOp'.request)
              ELSE /\ db' = db
                   /\ scheduleBlocks' = scheduleBlocks
                   /\ error' # NoError
      ]_vars

\* an unlocked block dragged to a free place and persisted there, locked
C18_Witness ==
    /\ lastOp.op = "updateScheduleBlock"
    /\ lastOp.ok
    /\ \E r \in db :
          /\ r.id = lastOp.request.id
          /\ r.start_at = lastOp.request.start_at
          /\ r.is_locked
          /\ r \notin CalendarBlockChoices
          /\ \E c \in CalendarBlockChoices : c.id = r.id /\ ~ c.is_locked

\* C20: a successful store.deleteTask(taskId) leaves no block of that task in
\* the store and leaves every other task and block as it was; when the
\* service returns an error, tasks and scheduleBlocks are unchanged and only
\* the error field is set.
C20_DeleteTaskRemovesItsBlocks ==
    [][ (lastOp' # lastOp /\ lastOp'.op = "deleteTask") =>
          IF lastOp'.ok
          THEN /\ \A i \in 1..Len(scheduleBlocks') :
                     scheduleBlocks'[i].task_id # lastOp'.taskId
               /\ scheduleBlocks' =
                     SelectSeq(scheduleBlocks,
                               LAMBDA b : b.task_id # lastOp'.taskId)
               /\ tasks' = SelectSeq(tasks, LAMBDA t : t.id # lastOp'.taskId)
          ELSE /\ tasks' = tasks
               /\ scheduleBlocks' = scheduleBlocks
               /\ error' # NoError
               /\ UNCHANGED <<fixedEvents, generationWarnings, isGenerating>>
      ]_vars

\* a task deleted that had a block in the store, next to a block of another
C20_Witness ==
    /\ lastOp.op = "deleteTask"
    /\ lastOp.ok
    /\ \E i \in 1..Len(lastOp.before) : lastOp.before[i].task_id = lastOp.taskId
    /\ Len(scheduleBlocks) > 0
    /\ \A i \in 1..Len(scheduleBlocks) : scheduleBlocks[i].task_id # lastOp.taskId

\* vocabulary of the claims about the placement loop
LoopLeft == pc = "warnings" \/ (result.returned /\ Len(tasksToSchedule) > 0)

MinutesOnDay(blocks, d) ==
    SumSeq([ k \in 1..Len(blocks) |->
               IF DayOf(blocks[k].start_at) = d
               THEN blocks[k].duration_minutes ELSE 0 ])

MinutesOfTaskOnDay(blocks, taskId, d) ==
    SumSeq([ k \in 1..Len(blocks) |->
               IF blocks[k].task_id = taskId /\ DayOf(blocks[k].start_at) = d
               THEN blocks[k].duration_minutes ELSE 0 ])

\* the day-selection constraints for a task context on day d of the horizon
DayIsSuitable(c, d) ==
    /\ inventory[d].date <= c.task.deadline
    /\ \/ c.lastSessionDate = NoDate
       \/ inventory[d].date - c.lastSessionDate >= MIN_SPACING_DAYS * MinutesPerDay
    /\ inventory[d].totalAvailableMinutes - inventory[d].usedStudyMinutes
          >= config.minBlockMinutes
    /\ inventory[d].usedStudyMinutes < MAX_DAILY_TOTAL_STUDY
    /\ MinutesOfTaskOnDay(createdBlocks, c.task.id, d)
          < config.maxDailyMinutesPerTask

\* the day the search selects among the suitable days from a cursor on
SelectedDay(c, cursor) ==
    LET suitable == { d \in DOMAIN inventory : d >= cursor /\ DayIsSuitable(c, d) }
        calm == { d \in suitable :
                    4 * inventory[d].usedStudyMinutes
                      < 3 * inventory[d].totalAvailableMinutes }
    IN IF calm # {} THEN MinOfSet(calm) ELSE MinOfSet(suitable)

\* no session for the context can be carved out of day d
CannotTakeSession(c, d) ==
    LET length == calculateOptimalSessionDuration(c, inventory[d],
                                                  dailyTaskUsage, config)
    IN \/ length < config.minBlockMinutes
       \/ \A k \in 1..Len(inventory[d].freeSlots) :
             inventory[d].freeSlots[k].end - inventory[d].freeSlots[k].start
               < length

FreeSlotsReturned == call.fn = "findFreeSlots" /\ ret.returned

CallWeekday == (call.weekdayOfToday + call.dayIndex) % 7

CallHasWindow == CallWeekday \in DOMAIN call.config.dailyWorkHours

CallWindow ==
    [ start |-> call.dayIndex * MinutesPerDay
                  + call.config.dailyWorkHours[CallWeekday].start * 60,
      end   |-> call.dayIndex * MinutesPerDay
                  + call.config.dailyWorkHours[CallWeekday].end * 60 ]

CallBlocked == SeqToSet(call.blockedRanges)

\* [a, b] lies in the window, meets no blocked range and cannot be extended
MaximalUncovered(a, b) ==
    /\ CallWindow.start <= a /\ a < b /\ b <= CallWindow.end
    /\ \A r \in CallBlocked : ~ Intersect(a, b, r.start, r.end)
    /\ \/ a = CallWindow.start
       \/ \E r \in CallBlocked : r.start < a /\ a <= r.end
    /\ \/ b = CallWindow.end
       \/ \E r \in CallBlocked : r.start <= b /\ b < r.end

ExpectedFreeSlots ==
    LET points == {CallWindow.start, CallWindow.end}
                  \cup { r.start : r \in CallBlocked }
                  \cup { r.end : r \in CallBlocked }
    IN { sl \in [start : points, end : points] :
           /\ MaximalUncovered(sl.start, sl.end)
           /\ sl.end - sl.start >= call.config.minBlockMinutes }

C23_FurthestDeadline ==
    MinOfSet({ -tasksToSchedule[i].deadline : i \in 1..Len(tasksToSchedule) }) * (-1)

C23_HorizonCoversDeadlines ==
    (EngineEntered /\ Len(tasksToSchedule) > 0) =>
      LET size == Cardinality(DOMAIN inventory)
      IN /\ size >= 30 /\ size <= 120
         /\ DOMAIN inventory = 0..(size - 1)
         /\ \A d \in DOMAIN inventory : inventory[d].date = d * MinutesPerDay
         /\ C23_FurthestDeadline - now < 120 * MinutesPerDay =>
               DayOf(C23_FurthestDeadline) \in DOMAIN inventory

\* vocabulary of the claim about the day search: the context the for loop is
\* about to search a day for, the days at or after the cursor that satisfy
\* the hard constraints for it, and those of them under the threshold
SearchPending ==
    /\ pc = "round"
    /\ ti <= Len(taskContexts)
    /\ taskContexts[ti].remainingMinutes > 0

HardOkDays ==
    { d \in DOMAIN inventory :
        d >= currentDayIndex /\ DayIsSuitable(taskContexts[ti], d) }

CalmDays ==
    { d \in HardOkDays :
        4 * MinutesOnDay(createdBlocks, d) < 3 * inventory[d].totalAvailableMinutes }

ReturnedDay ==
    findNextSuitableDay(taskContexts[ti], inventory, dailyTaskUsage,
                        currentDayIndex, config)

IsEarliestOf(d, S) == d \in S /\ \A e \in S : d <= e

Placement ==
    /\ pc = "round"
    /\ Len(createdBlocks') = Len(createdBlocks) + 1

PlacedBlock == createdBlocks'[Len(createdBlocks')]

PlacedDay == DayOf(PlacedBlock.start_at)

TaskOf(taskId) ==
    CHOOSE t \in SeqToSet(tasksToSchedule) : t.id = taskId

RemainingOfTask == (TaskOf(PlacedBlock.task_id).estimated_hours4 * 15)
                      - MinutesOfTask(createdBlocks, PlacedBlock.task_id)

RemainingPerDayAllowance ==
    config.maxDailyMinutesPerTask
      - MinutesOfTaskOnDay(createdBlocks, PlacedBlock.task_id, PlacedDay)

RemainingDayCapacity ==
    inventory[PlacedDay].totalAvailableMinutes
      - MinutesOnDay(createdBlocks, PlacedDay)

RemainingGlobalCap == MAX_DAILY_TOTAL_STUDY - MinutesOnDay(createdBlocks, PlacedDay)

PlacementMinimum ==
    MinOfSet({ RemainingOfTask, RemainingPerDayAllowance, RemainingDayCapacity,
               RemainingGlobalCap, config.maxBlockMinutes })

PreferredThatFit ==
    { p \in {120, 90, 60, 45, 30} :
        p <= PlacementMinimum /\ p >= config.minBlockMinutes }

RoundOver == pc = "round" /\ ti > Len(taskContexts)

LoopContinues == pc' = "round"

RoundsExecuted == MaxRoundsInit - Max2(maxRounds, 0)

SessionsOf(taskId) ==
    Cardinality({ k \in 1..Len(createdBlocks) : createdBlocks[k].task_id = taskId })

SlackOf(task) ==
    Max2((task.deadline - now) - task.estimated_hours4 * 15, 0)

ClearlyAhead(a, b) ==
    /\ a.estimated_hours4 = b.estimated_hours4
    /\ a.importance >= b.importance
    /\ a.difficulty >= b.difficulty
    /\ SlackOf(a) <= SlackOf(b)
    /\ \/ a.importance > b.importance
       \/ a.difficulty > b.difficulty
       \/ SlackOf(a) < SlackOf(b)

LoopRunning == pc \in {"round", "warnings"}

\* the contexts are the eligible tasks, in descending order of the score
\* each had when generation started; no task has more sessions than rounds
C27_OrderAndSessions ==
    LoopRunning =>
      /\ { taskContexts[i].task : i \in 1..Len(taskContexts) }
            = SeqToSet(tasksToSchedule)
      /\ Len(taskContexts) = Len(tasksToSchedule)
      /\ \A i, j \in 1..Len(taskContexts) :
            i < j =>
              /\ ~ ClearlyAhead(taskContexts[j].task, taskContexts[i].task)
              /\ ~ ScoreGreater(calculatePriorityScore(taskContexts[j].task, now),
                                calculatePriorityScore(taskContexts[i].task, now))
      /\ \A i \in 1..Len(taskContexts) :
            /\ SessionsOf(taskContexts[i].task.id) <= RoundsExecuted
            /\ (pc = "round" /\ i >= ti) =>
                  SessionsOf(taskContexts[i].task.id) <= RoundsExecuted - 1

\* a step of a round visits the next context in the order and gives a
\* session to that one at most; the order is the same after every step
C27_VisitStep ==
    pc = "round" =>
      /\ Len(taskContexts') = Len(taskContexts)
      /\ \A i \in 1..Len(taskContexts) :
            /\ taskContexts'[i].task = taskContexts[i].task
            /\ taskContexts'[i].priority = taskContexts[i].priority
      /\ ~ RoundOver =>
            /\ ti' = ti + 1
            /\ \A i \in 1..Len(taskContexts) :
                  i # ti => taskContexts'[i] = taskContexts[i]
            /\ \/ createdBlocks' = createdBlocks
               \/ /\ Placement
                  /\ PlacedBlock.task_id = taskContexts[ti].task.id
                  /\ taskContexts[ti].remainingMinutes > 0
                  /\ SubSeq(createdBlocks', 1, Len(createdBlocks)) = createdBlocks
      /\ RoundOver =>
            /\ createdBlocks' = createdBlocks
            /\ taskContexts' = taskContexts
            /\ LoopContinues => ti' = 1

\* C27: in every round the tasks with remaining work are visited once each,
\* in descending order of the priority score computed at the start of
\* generation, the order is never recomputed, a task receives at most one
\* session per round, and no task has more sessions than rounds executed.
C27_FixedOrderOneSessionPerRound ==
    [] C27_OrderAndSessions /\ [][C27_VisitStep]_vars

\* the sort moved the second task ahead of the first, and after two rounds
\* both have two sessions
C27_Witness ==
    /\ LoopRunning
    /\ Len(taskContexts) = 2
    /\ taskContexts[1].task.id = 2
    /\ ClearlyAhead(taskContexts[1].task, taskContexts[2].task)
    /\ RoundsExecuted = 2
    /\ SessionsOf(1) = 2
    /\ SessionsOf(2) = 2

\* C28: any two sessions of one task created in a run lie on days at least
\* MIN_SPACING_DAYS (1) apart: at most one session of the task per calendar
\* day, and the task's sessions are on strictly increasing days in the
\* order in which they were created.
C28_SessionsOnIncreasingDays ==
    \A k, l \in 1..Len(createdBlocks) :
      (k < l /\ createdBlocks[k].task_id = createdBlocks[l].task_id) =>
        DayOf(createdBlocks[l].start_at) - DayOf(createdBlocks[k].start_at) >= 1

\* a task with sessions on two consecutive days, created around a session
\* of another task
C28_Witness ==
    \E k, l \in 1..Len(createdBlocks) :
      /\ k + 1 < l
      /\ createdBlocks[k].task_id = createdBlocks[l].task_id
      /\ createdBlocks[k + 1].task_id # createdBlocks[k].task_id
      /\ DayOf(createdBlocks[l].start_at) = DayOf(createdBlocks[k].start_at) + 1

\* the days on which a created block starts; on every other day the sums
\* of the claims below are zero
DaysWithBlocks ==
    { DayOf(createdBlocks[k].start_at) : k \in 1..Len(createdBlocks) }

\* C29: after every placement and at termination, for every task and every
\* day the minutes of the task's created blocks on that day add up to at
\* most maxDailyMinutesPerTask.
C29_PerTaskDailyCap ==
    EngineEntered =>
      /\ config.maxDailyMinutesPerTask >= 0
      /\ \A i \in 1..Len(tasksToSchedule) : \A d \in DaysWithBlocks :
            MinutesOfTaskOnDay(createdBlocks, tasksToSchedule[i].id, d)
              <= config.maxDailyMinutesPerTask

\* a session cut to what the per-task daily cap allows, below the longest
\* session and below the task's remaining work
C29_Witness ==
    /\ EngineEntered
    /\ config.maxDailyMinutesPerTask < config.maxBlockMinutes
    /\ \E j \in 1..Len(taskContexts) : \E d \in DOMAIN inventory :
          /\ taskContexts[j].remainingMinutes >= config.minBlockMinutes
          /\ MinutesOfTaskOnDay(createdBlocks, taskContexts[j].task.id, d) > 0
          /\ MinutesOfTaskOnDay(createdBlocks, taskContexts[j].task.id, d)
                + 30 > config.maxDailyMinutesPerTask

\* the free minutes of day d before any placement
InitiallyAvailable(d) ==
    LET slots == findFreeSlots(d, weekdayOfToday,
                     getBlockedRanges(fixedEvents, lockedBlocks), config)
    IN SumSeq([ k \in 1..Len(slots) |-> slots[k].end - slots[k].start ])

\* C30: after every placement and at termination, for every day the minutes
\* of all created blocks on that day add up to at most MAX_DAILY_TOTAL_STUDY
\* (360) and to at most the day's total available minutes computed before
\* any placement, and the day's saturation is within [0, 1].
C30_DailyTotalWithinCaps ==
    EngineEntered =>
      /\ DaysWithBlocks \subseteq DOMAIN inventory
      /\ \A d \in DaysWithBlocks :
            /\ MinutesOnDay(createdBlocks, d) <= 360
            /\ MinutesOnDay(createdBlocks, d) <= InitiallyAvailable(d)
            /\ inventory[d].usedStudyMinutes = MinutesOnDay(createdBlocks, d)
      /\ \A d \in DOMAIN inventory :
        /\ inventory[d].totalAvailableMinutes >= 0
        /\ inventory[d].saturation.den > 0
        /\ inventory[d].saturation.num >= 0
        /\ inventory[d].saturation.num <= inventory[d].saturation.den

\* a day filled up to the global cap by four tasks
C30_Witness ==
    /\ EngineEntered
    /\ \E d \in DOMAIN inventory :
          /\ MinutesOnDay(createdBlocks, d) = 360
          /\ Cardinality({ createdBlocks[k].task_id : k \in
                { k \in 1..Len(createdBlocks) :
                    DayOf(createdBlocks[k].start_at) = d } }) = 4

\* vocabulary of the claim about carving: the free slots of a day before any
\* placement, and the slot of the chosen day a placement carves from
OriginalSlots(d) ==
    findFreeSlots(d, weekdayOfToday,
                  getBlockedRanges(fixedEvents, lockedBlocks), config)

CarvedSlotIs(k) ==
    LET slots == inventory[PlacedDay].freeSlots
        after == inventory'[PlacedDay].freeSlots
    IN /\ k \in 1..Len(slots)
       /\ slots[k].end - slots[k].start >= PlacedBlock.duration_minutes
       /\ \A j \in 1..(k - 1) :
             slots[j].end - slots[j].start < PlacedBlock.duration_minutes
       /\ PlacedBlock.start_at = slots[k].start
       /\ Len(after) = Len(slots)
       /\ after[k].start = PlacedBlock.end_at + config.breakBetweenBlocks
       /\ after[k].end = slots[k].end
       /\ \A j \in 1..Len(slots) : j # k => after[j] = slots[j]

InSameOriginalSlot(a, b) ==
    /\ DayOf(a.start_at) = DayOf(b.start_at)
    /\ \E k \in 1..Len(OriginalSlots(DayOf(a.start_at))) :
         LET slot == OriginalSlots(DayOf(a.start_at))[k]
         IN /\ slot.start <= a.start_at /\ a.end_at <= slot.end
            /\ slot.start <= b.start_at /\ b.end_at <= slot.end

\* any two created blocks of one original free slot are a break apart
C31_BreakBetweenBlocks ==
    EngineEntered =>
      \A k, l \in 1..Len(createdBlocks) :
        (k < l /\ InSameOriginalSlot(createdBlocks[k], createdBlocks[l])) =>
          \/ createdBlocks[k].end_at + config.breakBetweenBlocks
                <= createdBlocks[l].start_at
          \/ createdBlocks[l].end_at + config.breakBetweenBlocks
                <= createdBlocks[k].start_at

\* C31: a session is carved from the start of the first free slot of the
\* chosen day that is long enough, the slot's start is then advanced to the
\* session's end plus breakBetweenBlocks, and any two created blocks taken
\* from the same original free slot are at least breakBetweenBlocks minutes
\* apart, whichever tasks they belong to.
C31_CarvedFromSlotStart ==
    [] C31_BreakBetweenBlocks
    /\ [][ Placement => \E k \in 1..Len(inventory[PlacedDay].freeSlots) :
                          CarvedSlotIs(k) ]_vars

\* two blocks of different tasks carved one after the other from one slot,
\* exactly a break of 15 minutes apart
C31_Witness ==
    /\ EngineEntered
    /\ config.breakBetweenBlocks = 15
    /\ \E k, l \in 1..Len(createdBlocks) :
         /\ createdBlocks[k].task_id # createdBlocks[l].task_id
         /\ InSameOriginalSlot(createdBlocks[k], createdBlocks[l])
         /\ createdBlocks[l].start_at = createdBlocks[k].end_at + 15

\* vocabulary of the claim about the weights: twice 1.5 * importance +
\* difficulty, and the place of a task in the order of the visits
TwiceWeighted(task) == 3 * task.importance + 2 * task.difficulty

PlaceOf(taskId) ==
    CHOOSE i \in 1..Len(taskContexts) : taskContexts[i].task.id = taskId

SameDeadlineAndEffort(a, b) ==
    /\ a.deadline = b.deadline
    /\ a.estimated_hours4 = b.estimated_hours4

\* C32: of two eligible tasks with the same deadline and the same effort the
\* one with the larger 1.5 * importance + difficulty is visited first in
\* every round; a task of importance k + 1 and difficulty j precedes a task
\* of importance k and difficulty j + 1.
C32_ImportanceOutweighsDifficulty ==
    LoopRunning =>
      \A a, b \in SeqToSet(tasksToSchedule) :
        /\ (SameDeadlineAndEffort(a, b) /\ TwiceWeighted(a) > TwiceWeighted(b))
             => PlaceOf(a.id) < PlaceOf(b.id)
        /\ ( /\ SameDeadlineAndEffort(a, b)
             /\ a.importance = b.importance + 1
             /\ b.difficulty = a.difficulty + 1 )
             => PlaceOf(a.id) < PlaceOf(b.id)

\* in the second round the task given second, of importance one higher and
\* difficulty one lower than the first, is ahead of it in the order
C32_Witness ==
    /\ pc = "round"
    /\ RoundsExecuted = 2
    /\ Len(tasksToSchedule) = 2
    /\ SameDeadlineAndEffort(tasksToSchedule[1], tasksToSchedule[2])
    /\ tasksToSchedule[2].importance = tasksToSchedule[1].importance + 1
    /\ tasksToSchedule[1].difficulty = tasksToSchedule[2].difficulty + 1
    /\ taskContexts[1].task.id = tasksToSchedule[2].id
    /\ ti = 2

\* vocabulary of the claim about concurrent drags: no two locked rows
\* overlap and no locked row overlaps a fixed event
LockedOverlapFree(rows) ==
    /\ \A a, b \in rows :
         (a.id # b.id /\ a.is_locked /\ b.is_locked) =>
            ~ Intersect(a.start_at, a.end_at, b.start_at, b.end_at)
    /\ \A a \in rows : \A i \in 1..Len(fixedEvents) :
         a.is_locked =>
            ~ Intersect(a.start_at, a.end_at,
                        fixedEvents[i].start_at, fixedEvents[i].end_at)

\* C35: starting from blocks of which no locked one overlaps a fixed event
\* or another locked one, and with the fixed events unchanged, once the drag
\* and resize handlers that ran have had their updates answered, no two
\* locked blocks overlap and no locked block overlaps a fixed event, in
\* persistence and in the store.
C35_DragsKeepLockedDisjoint ==
    (LockedOverlapFree(dbBefore) /\ pending = {}) =>
       /\ LockedOverlapFree(db)
       /\ LockedOverlapFree(SeqToSet(scheduleBlocks))


\* C36: no block created by generateScheduleBlocks starts before the instant
\* now at which generation was invoked.
C36_NoBlockStartsBeforeNow ==
    EngineEntered =>
       \A k \in 1..Len(createdBlocks) : createdBlocks[k].start_at >= now


\* vocabulary of the claim about the loop's bookkeeping
RecordedOnDay(d) ==
    SumSeq([ i \in 1..Len(taskContexts) |->
               TaskMinutesUsed(dailyTaskUsage, d, taskContexts[i].task.id) ])

\* C39: after every placement, for every day usedStudyMinutes equals the sum
\* of the durations of the blocks created on that day and equals the sum
\* over tasks of the per-task usage recorded for that day; for every task
\* its effort minutes minus remainingMinutes equals the sum of the durations
\* of its created blocks, and remainingMinutes is never negative.
C39_BookkeepingAgrees ==
    LoopRunning =>
       /\ \A d \in DOMAIN inventory :
            /\ inventory[d].usedStudyMinutes = MinutesOnDay(createdBlocks, d)
            /\ inventory[d].usedStudyMinutes = RecordedOnDay(d)
       /\ \A i \in 1..Len(taskContexts) :
            /\ EffortMinutes(taskContexts[i].task) - taskContexts[i].remainingMinutes
                 = MinutesOfTask(createdBlocks, taskContexts[i].task.id)
            /\ taskContexts[i].remainingMinutes >= 0

\* a day carries sessions of two tasks, and one of them has a session on
\* another day as well
C39_Witness ==
    /\ LoopRunning
    /\ \E j, k, l \in 1..Len(createdBlocks) :
         /\ createdBlocks[j].task_id = createdBlocks[l].task_id
         /\ createdBlocks[j].task_id # createdBlocks[k].task_id
         /\ DayOf(createdBlocks[j].start_at) = DayOf(createdBlocks[k].start_at)
         /\ DayOf(createdBlocks[j].start_at) # DayOf(createdBlocks[l].start_at)

\* vocabulary of the claims about store.generateSchedule
GenerateScheduleReturned == mode = "store" /\ pc \in {"done", "failed"}

\* C37: after store.generateSchedule returns, on success or on failure of
\* any step, the store's scheduleBlocks equals the set of blocks persisted
\* for the user.
C37_StoreEqualsPersistence ==
    GenerateScheduleReturned => SeqToSet(scheduleBlocks) = db


GenerateScheduleRunning ==
    mode = "store" /\ pc \in {"delete", "fetch", "round", "warnings", "returned"}

GenerateScheduleFailed == mode = "store" /\ pc = "failed"

\* isGenerating is true while the call runs and false once it has returned;
\* until the call succeeds the store shows what it showed when it started
C38_FlagAndStoreDuringCall ==
    /\ GenerateScheduleRunning => isGenerating
    /\ GenerateScheduleReturned => ~ isGenerating
    /\ (GenerateScheduleRunning \/ GenerateScheduleFailed) =>
          /\ scheduleBlocks = OrderByStart(dbBefore)
          /\ generationWarnings = <<>>
    /\ GenerateScheduleFailed => error # NoError
    /\ GenerateScheduleRunning => error = NoError

\* C38: if the delete, fetch-locked or batch-insert step of
\* store.generateSchedule fails, the call ends in its catch branch (it
\* returns null), sets error, leaves the store's scheduleBlocks and
\* generationWarnings unchanged, writes nothing in the failing step and
\* performs no later step; on every path isGenerating is true from the start
\* of the call and false once it has returned.
C38_FailureLeavesStoreAlone ==
    /\ [] C38_FlagAndStoreDuringCall
    /\ [][ /\ (mode = "store" /\ pc # "failed" /\ pc' = "failed") =>
                /\ pc \in {"delete", "fetch", "returned"}
                /\ error' # NoError
                /\ ~ isGenerating'
                /\ UNCHANGED <<scheduleBlocks, generationWarnings, db, result>>
           /\ (mode = "store" /\ pc = "idle") => isGenerating'
           /\ GenerateScheduleFailed => UNCHANGED vars ]_vars

\* the batch insert failed after the delete had removed a row and the engine
\* had created blocks
C38_Witness ==
    /\ GenerateScheduleFailed
    /\ error = "insert failed"
    /\ Len(result.createdBlocks) > 0
    /\ db # dbBefore


\* vocabulary of the claim about the order of the store's steps
FutureUnlocked(rows) == { b \in rows : ~ b.is_locked /\ b.start_at >= now }

SortedByStart(blocks) ==
    \A i \in 1..(Len(blocks) - 1) : blocks[i].start_at <= blocks[i + 1].start_at

SameAsCreated(row, created) ==
    /\ row.task_id = created.task_id
    /\ row.start_at = created.start_at
    /\ row.end_at = created.end_at
    /\ row.duration_minutes = created.duration_minutes
    /\ row.is_locked = created.is_locked

StoreStepOrder ==
    /\ pc = "idle" => pc' = "delete"
    /\ pc = "delete" => pc' \in {"fetch", "failed"}
    /\ pc = "fetch" => pc' \in {"round", "returned", "failed"}
    /\ pc = "round" => pc' \in {"round", "warnings"}
    /\ pc = "warnings" => pc' = "returned"
    /\ pc = "returned" => pc' \in {"done", "failed"}
    /\ pc \in {"done", "failed"} => pc' = pc

\* C33: in every run of store.generateSchedule the steps happen in this
\* order: delete the future unlocked blocks, fetch the locked blocks,
\* generate with exactly the fetched locked set, then batch-insert the
\* created blocks (skipped when none were created); on success the store's
\* scheduleBlocks is the fetched locked blocks followed by the inserted
\* blocks and generationWarnings is the result's warnings.
C33_StepsInOrder ==
    [][ mode' = "store" =>
          /\ StoreStepOrder
          /\ (pc = "delete" /\ pc' = "fetch") =>
                db' = db \ FutureUnlocked(db)
          /\ pc' # "fetch" /\ pc' # "done" => db' = db
          /\ (pc = "fetch" /\ pc' # "failed") =>
                /\ SeqToSet(lockedBlocks') = { b \in db : b.is_locked }
                /\ Len(lockedBlocks') = Cardinality({ b \in db : b.is_locked })
                /\ SortedByStart(lockedBlocks')
                /\ config' = DEFAULT_SCHEDULER_CONFIG
                /\ pc' = "round" =>
                     inventory' = buildDailySlotInventory(
                                     HorizonDays(tasksToSchedule', now),
                                     weekdayOfToday,
                                     getBlockedRanges(fixedEvents, lockedBlocks'),
                                     DEFAULT_SCHEDULER_CONFIG)
          /\ pc \in {"round", "warnings", "returned"} =>
                lockedBlocks' = lockedBlocks
          /\ pc' = "done" =>
                LET n == Len(result.createdBlocks)
                    m == Len(lockedBlocks)
                IN /\ Len(scheduleBlocks') = m + n
                   /\ SubSeq(scheduleBlocks', 1, m) = lockedBlocks
                   /\ \A i \in 1..n :
                        /\ SameAsCreated(scheduleBlocks'[m + i],
                                         result.createdBlocks[i])
                        /\ scheduleBlocks'[m + i] \notin db
                   /\ db' = db \cup { scheduleBlocks'[m + i] : i \in 1..n }
                   /\ Cardinality(db') = Cardinality(db) + n
                   /\ generationWarnings' = result.warnings ]_vars

\* a successful run that fetched a locked block, inserted created blocks and
\* reported a warning
C33_Witness ==
    /\ mode = "store" /\ pc = "done"
    /\ Len(lockedBlocks) > 0
    /\ Len(result.createdBlocks) > 0
    /\ Len(generationWarnings) > 0
    /\ Len(scheduleBlocks) = Len(lockedBlocks) + Len(result.createdBlocks)


\* vocabulary of the claim about two generateSchedule calls
BothCallsCompleted ==
    GenerateScheduleReturned /\ other.pc \in {"done", "failed"}

GeneratedRows == { b \in db : b.id >= FirstFreshId }

\* C34: for any interleaving of two store.generateSchedule invocations of
\* the same user, once both have completed no two persisted blocks created
\* by generation overlap each other.
C34_TwoCallsLeaveNoOverlap ==
    BothCallsCompleted =>
       \A a, b \in GeneratedRows :
          a.id # b.id => ~ Intersect(a.start_at, a.end_at, b.start_at, b.end_at)

====
